---- MODULE Spec2Model ----
(***************************************************************************)
(* Authentication and abuse control of the Eco-product backend:            *)
(*   backend/src/routes/auth.ts        POST /login, POST /login/totp       *)
(*   backend/src/middleware/rateLimit  IP tracker, lockout, email guard,   *)
(*                                     login-attempt ledger                *)
(* A request handler is a sequence of steps, one per awaited store          *)
(* operation; the synchronous code that follows an await runs in the same  *)
(* step as the operation it waited for.  Step(g, r) is one such step of    *)
(* request r on the stores g.  Spec runs one request at a time, each to    *)
(* its response; SpecConc interleaves the steps of two requests.           *)
(***************************************************************************)
EXTENDS Integers, Sequences, FiniteSets, Bags, TLC

\* ---------------------------------------------------------------- bounds
MaxTicks == 2        \* number of times the clock is advanced
MaxRequests == 4     \* number of requests that are ever started
MaxPairs == 10       \* number of paired logins of SpecEnum
MaxFaulty == 3       \* number of requests of SpecFault
MaxCodes == 6        \* number of verifications of SpecRetry
MaxWindow == 6       \* number of logins of SpecWindow

\* ------------------------------------------------- RATE_LIMIT (rateLimit)
IP_MAX_ATTEMPTS == 5
IP_WINDOW_MS == 60000
EMAIL_MAX_ATTEMPTS == 10
EMAIL_WINDOW_MS == 3600000
LOCKOUT_THRESHOLD == 10
LOCKOUT_DURATION_MS == 900000
CHALLENGE_TTL_MS == 120000
TOTP_STEP_MS == 30000
TOTP_WINDOW == 1
JWT_TTL_S == 604800

\* ------------------------------------------------------------ input sets
Null == -1
Slots == {1, 2}
IPs == {"ip1", "ip2"}
UserIds == {"u1"}
EmailOf == [u \in UserIds |-> "a@x.com"]
Secrets == {"S1"}
Deltas == {1, IP_WINDOW_MS, LOCKOUT_DURATION_MS}

\* A User row has, besides its columns, the field phase: the state of the
\* second-factor life cycle the account is in (NONE, SETUP_PENDING, ENABLED,
\* DISABLED), which the operations on totpSecret and totpEnabled move.
VARIABLES
    now,            \* Date.now()
    ticks,          \* how many times the clock has been advanced
    started,        \* how many requests have been started
    loginAttempts,  \* the in-memory Map of rateLimit: ip -> {count, firstAttempt}
    ledger,         \* table LoginAttempt: a bag of rows (ip and userAgent, which
                    \* no query reads, are left out of the rows)
    users,          \* table User
    challenges,     \* table LoginChallenge: id -> row
    nextChallenge,  \* the next fresh challenge id
    reqs,           \* the requests in flight: slot -> handler position and locals
    issued,         \* the bag of the session tokens signed so far
    ipFails         \* per IP, the times of its failed credential checks since its
                    \* last 200 response, as far back as one IP window

vars == <<now, ticks, started, loginAttempts, ledger, users, challenges, nextChallenge,
          reqs, issued, ipFails>>

\* --------------------------------------------------------------- helpers
\* Math.ceil(x / k) for integers
Ceil(x, k) == -((-x) \div k)

\* bcrypt: the stored hash of a password, and the comparison against it
bcryptHash(pw) == <<"bcrypt", pw>>
bcryptCompare(pw, hash) == bcryptHash(pw) = hash

\* otplib authenticator: the code of a secret at a time step, and verify()
\* with options.window = 1 (one step of skew either way)
totpToken(secret, step) == [secret |-> secret, step |-> step]
totpStep(t) == t \div TOTP_STEP_MS
authenticatorVerify(token, secret, t) ==
    /\ token.secret = secret
    /\ token.step >= totpStep(t) - TOTP_WINDOW
    /\ token.step <= totpStep(t) + TOTP_WINDOW

\* prisma.user.findUnique({ where: { email } }): the set of matching ids
findUserByEmail(us, email) == {u \in UserIds : EmailOf[u] = email}

\* variant: rows of any age are counted
countFailed_ever(led, email, t) ==
    LET rows == {x \in BagToSet(led) : x.email = email /\ ~x.success}
    IN BagCardinality([x \in rows |-> led[x]])

\* variant: rows of any outcome are counted
countFailed_anyOutcome(led, email, t) ==
    LET rows == {x \in BagToSet(led) :
                    x.email = email /\ x.createdAt >= t - EMAIL_WINDOW_MS}
    IN BagCardinality([x \in rows |-> led[x]])

\* prisma.loginAttempt.count({ email, success: false, createdAt >= windowStart })
countFailed(led, email, t) ==
    LET rows == {x \in BagToSet(led) :
                    /\ x.email = email
                    /\ ~x.success
                    /\ x.createdAt >= t - EMAIL_WINDOW_MS}
    IN BagCardinality([x \in rows |-> led[x]])

\* String.prototype.toLowerCase().trim() on the addresses clients send
normalizeEmail(raw) ==
    CASE raw = "A@X.com" -> "a@x.com"
      [] OTHER -> raw

\* jsonwebtoken: sign({}, JWT_SECRET, { subject, expiresIn: '7d' }) at time t
\* (exp is in seconds), and verify(), which throws on a signature made with
\* another key and once the clock has reached exp
jwtSign(sub, t) == [sig |-> "JWT_SECRET", sub |-> sub, exp |-> (t \div 1000) + JWT_TTL_S]
jwtVerify(tok, t) ==
    IF tok.sig # "JWT_SECRET" THEN [thrown |-> TRUE, sub |-> ""]
    ELSE IF (t \div 1000) >= tok.exp THEN [thrown |-> TRUE, sub |-> ""]
    ELSE [thrown |-> FALSE, sub |-> tok.sub]

\* ------------------------------------------------- rateLimit: IP tracker
\* variant: the bucket is full only above IP_MAX_ATTEMPTS
checkIpRateLimit_above(la, ip, t) ==
    IF ip \notin DOMAIN la \/ t - la[ip].firstAttempt > IP_WINDOW_MS
    THEN [allowed |-> TRUE, remainingSeconds |-> Null]
    ELSE IF la[ip].count > IP_MAX_ATTEMPTS
         THEN [allowed |-> FALSE,
               remainingSeconds |->
                   Ceil(IP_WINDOW_MS - (t - la[ip].firstAttempt), 1000)]
         ELSE [allowed |-> TRUE, remainingSeconds |-> Null]

checkIpRateLimit(la, ip, t) ==
    IF ip \notin DOMAIN la \/ t - la[ip].firstAttempt > IP_WINDOW_MS
    THEN [allowed |-> TRUE, remainingSeconds |-> Null]
    ELSE IF la[ip].count >= IP_MAX_ATTEMPTS
         THEN [allowed |-> FALSE,
               remainingSeconds |->
                   Ceil(IP_WINDOW_MS - (t - la[ip].firstAttempt), 1000)]
         ELSE [allowed |-> TRUE, remainingSeconds |-> Null]

\* variant: every failure starts the bucket afresh
recordIpAttempt_reset(la, ip, t) ==
    [k \in DOMAIN la \cup {ip} |->
        IF k = ip THEN [count |-> 1, firstAttempt |-> t] ELSE la[k]]

recordIpAttempt(la, ip, t) ==
    IF ip \notin DOMAIN la \/ t - la[ip].firstAttempt > IP_WINDOW_MS
    THEN [k \in DOMAIN la \cup {ip} |->
            IF k = ip THEN [count |-> 1, firstAttempt |-> t] ELSE la[k]]
    ELSE [la EXCEPT ![ip].count = @ + 1]

\* rateLimit 54-62: cleanupLoginAttempts, run by setInterval every 5 minutes
cleanupLoginAttempts(la, t) ==
    LET maxWindow == IF IP_WINDOW_MS > EMAIL_WINDOW_MS
                     THEN IP_WINDOW_MS ELSE EMAIL_WINDOW_MS
    IN [k \in {ip \in DOMAIN la : ~(t - la[ip].firstAttempt > maxWindow)} |-> la[k]]

\* variant: the bucket is kept
clearIpAttempts_kept(la, ip) == la

clearIpAttempts(la, ip) == [k \in DOMAIN la \ {ip} |-> la[k]]

\* --------------------------------------- rateLimit: lockout, email guard
\* variant: lockedUntil is not looked at
checkAccountLockout_open(us, email, t) ==
    [locked |-> FALSE, remainingMinutes |-> Null]

checkAccountLockout(us, email, t) ==
    LET found == findUserByEmail(us, email) IN
    IF found = {} THEN [locked |-> FALSE, remainingMinutes |-> Null]
    ELSE LET user == us[CHOOSE u \in found : TRUE] IN
         IF user.lockedUntil # Null /\ user.lockedUntil > t
         THEN [locked |-> TRUE,
               remainingMinutes |-> Ceil(user.lockedUntil - t, 60000)]
         ELSE [locked |-> FALSE, remainingMinutes |-> Null]

checkEmailRateLimit(led, email, t) ==
    [allowed |-> ~(countFailed(led, email, t) >= EMAIL_MAX_ATTEMPTS)]

\* ------------------------------------------------- requests and responses
NoToken == totpToken("", 0)
NoUserRow == [email |-> "", passwordHash |-> <<>>, totpSecret |-> "",
              totpEnabled |-> FALSE, lockedUntil |-> Null, lastLoginAt |-> Null,
              phase |-> "NONE"]
\* no Authorization header / no eco_token cookie
NoJwt == [sig |-> "", sub |-> "", exp |-> 0]
NoAuth == [header |-> NoJwt, cookie |-> NoJwt]

\* a request body as it arrives: the address and the password as sent, the
\* challenge id as a string of some form standing for the n-th id, the code as
\* a string of some form standing for a code of an authenticator
NoBody == [email |-> "", password |-> "",
           challengeId |-> [form |-> "", n |-> 0],
           code |-> [form |-> "", tok |-> NoToken]]

IdleReq == [pc |-> "idle", kind |-> "", email |-> "", ip |-> "", password |-> "",
            challengeId |-> 0, token |-> NoToken,
            userId |-> "", user |-> NoUserRow, t |-> Null, path |-> "",
            auth |-> NoAuth, identity |-> "", handled |-> FALSE, secret |-> "",
            newPassword |-> "", body |-> NoBody,
            lookedUp |-> FALSE, compared |-> FALSE,
            status |-> 0, err |-> "", retryAfter |-> Null, cookie |-> "",
            totpRequired |-> FALSE, respChallenge |-> 0, respExpiresAt |-> Null]

\* auth.ts 84-89: the body parsed, the email normalised, the ip read
NewLogin(email, ip, pw) ==
    [IdleReq EXCEPT !.kind = "login", !.pc = "ip", !.email = normalizeEmail(email),
                    !.ip = ip, !.password = pw]

\* auth.ts 311-316: the body parsed, the ip read
NewTotp(id, token, ip) ==
    [IdleReq EXCEPT !.kind = "totp", !.pc = "t_find", !.ip = ip,
                    !.challengeId = id, !.token = token]

InFlight(r) == r.pc \notin {"idle", "done"}
Quiet == \A s \in Slots : ~InFlight(reqs[s])

\* res.status(st).json({ error / code, retryAfter })
respond(r, st, err, retry) ==
    [r EXCEPT !.pc = "done", !.status = st, !.err = err, !.retryAfter = retry]

\* middleware/errors 7-15: what next(err) ends in
errorHandler(r) == respond(r, 500, "Internal server error", Null)

\* setAuthCookie(res, token); res.json({ user })
respondSession(r) ==
    [r EXCEPT !.pc = "done", !.status = 200, !.cookie = r.userId]

\* jwt.sign({}, JWT_SECRET, { subject: user.id, expiresIn: '7d' })
signToken(r, t) == [sub |-> r.userId, iat |-> t, challenge |-> r.challengeId]

\* the stores, as one record
G == [now |-> now, loginAttempts |-> loginAttempts, ledger |-> ledger,
      users |-> users, challenges |-> challenges, nextChallenge |-> nextChallenge,
      issued |-> issued, ipFails |-> ipFails]

noteFailure(g, ip) == [g.ipFails EXCEPT ![ip] = Append(@, g.now)]
noteSuccess(g, ip) == [g.ipFails EXCEPT ![ip] = <<>>]

\* variant: a stored secret is enough
totpActive_secretOnly(user) == user.totpSecret # ""

\* auth.ts 160 and 332: !userAny.totpEnabled || !userAny.totpSecret, negated
totpActive(user) == user.totpEnabled /\ user.totpSecret # ""

\* variant: the challenge lives for one IP window
challengeExpiry_short(t) == t + IP_WINDOW_MS

\* auth.ts 190: new Date(Date.now() + 2 * 60 * 1000)
challengeExpiry(t) == t + CHALLENGE_TTL_MS

\* variant: usedAt is not looked at
challengeGate_reusable(challenge, t) ==
    IF challenge.expiresAt <= t THEN "Challenge expired" ELSE ""

\* variant: the challenge is still good at the instant it expires
challengeGate_late(challenge, t) ==
    IF challenge.usedAt # Null THEN "Challenge already used"
    ELSE IF challenge.expiresAt < t THEN "Challenge expired"
    ELSE ""

\* auth.ts 323-328: the error a challenge row is turned away with, "" for none
challengeGate(challenge, t) ==
    IF challenge.usedAt # Null THEN "Challenge already used"
    ELSE IF challenge.expiresAt <= t THEN "Challenge expired"
    ELSE ""

\* ------------------------------------------------------ POST /login steps
\* variant: a request the IP guard turns away is counted in the bucket
LoginIpGuard_counting(g, r) ==
    LET ipCheck == checkIpRateLimit(g.loginAttempts, r.ip, g.now) IN
    IF ~ipCheck.allowed
    THEN [g |-> [g EXCEPT !.loginAttempts = recordIpAttempt(@, r.ip, g.now)],
          r |-> respond(r, 429, "IP_RATE_LIMIT", ipCheck.remainingSeconds)]
    ELSE [g |-> g, r |-> [r EXCEPT !.pc = "lockout"]]

\* auth.ts 93-101: checkIpRateLimit
LoginIpGuard(g, r) ==
    LET ipCheck == checkIpRateLimit(g.loginAttempts, r.ip, g.now) IN
    [g |-> g,
     r |-> IF ~ipCheck.allowed
           THEN respond(r, 429, "IP_RATE_LIMIT", ipCheck.remainingSeconds)
           ELSE [r EXCEPT !.pc = "lockout"]]

\* variant: the email guard runs before the lockout guard
LoginLockout_swapped(g, r) ==
    LET lockoutCheck == checkAccountLockout(g.users, r.email, g.now)
        emailCheck == checkEmailRateLimit(g.ledger, r.email, g.now)
    IN [g |-> g,
        r |-> IF ~emailCheck.allowed
              THEN respond(r, 429, "EMAIL_RATE_LIMIT", Null)
              ELSE IF lockoutCheck.locked
              THEN respond(r, 423, "ACCOUNT_LOCKED", lockoutCheck.remainingMinutes * 60)
              ELSE [r EXCEPT !.pc = "emailcheck"]]

\* variant: a locked account whose email guard is full is answered by the
\* email guard
LoginLockout_both(g, r) ==
    LET lockoutCheck == checkAccountLockout(g.users, r.email, g.now) IN
    [g |-> g,
     r |-> IF lockoutCheck.locked /\ ~checkEmailRateLimit(g.ledger, r.email, g.now).allowed
           THEN respond(r, 429, "EMAIL_RATE_LIMIT", Null)
           ELSE IF lockoutCheck.locked
           THEN respond(r, 423, "ACCOUNT_LOCKED", lockoutCheck.remainingMinutes * 60)
           ELSE [r EXCEPT !.pc = "emailcheck"]]

\* auth.ts 103-111: await checkAccountLockout
LoginLockout(g, r) ==
    LET lockoutCheck == checkAccountLockout(g.users, r.email, g.now) IN
    [g |-> g,
     r |-> IF lockoutCheck.locked
           THEN respond(r, 423, "ACCOUNT_LOCKED", lockoutCheck.remainingMinutes * 60)
           ELSE [r EXCEPT !.pc = "emailcheck"]]

\* auth.ts 113-120: await checkEmailRateLimit
LoginEmailCheck(g, r) ==
    LET emailCheck == checkEmailRateLimit(g.ledger, r.email, g.now) IN
    [g |-> g,
     r |-> IF ~emailCheck.allowed
           THEN respond(r, 429, "EMAIL_RATE_LIMIT", Null)
           ELSE [r EXCEPT !.pc = "find"]]

\* auth.ts 123-132: await prisma.user.findUnique; no user: recordIpAttempt
LoginFind(g, r) ==
    LET found == findUserByEmail(g.users, r.email) IN
    IF found = {}
    THEN [g |-> [g EXCEPT !.loginAttempts = recordIpAttempt(@, r.ip, g.now),
                          !.ipFails = noteFailure(g, r.ip)],
          r |-> [r EXCEPT !.pc = "rec_insert", !.path = "nouser", !.lookedUp = TRUE]]
    ELSE LET u == CHOOSE x \in found : TRUE IN
         [g |-> g,
          r |-> [r EXCEPT !.pc = "compare", !.userId = u, !.user = g.users[u],
                          !.lookedUp = TRUE]]

\* variant: the token is signed and the cookie set as soon as the password
\* has been found right
LoginCompare_eager(g, r) ==
    LET ok == bcryptCompare(r.password, r.user.passwordHash) IN
    IF ~ok
    THEN [g |-> [g EXCEPT !.loginAttempts = recordIpAttempt(@, r.ip, g.now),
                          !.ipFails = noteFailure(g, r.ip)],
          r |-> [r EXCEPT !.pc = "rec_insert", !.path = "badpw", !.compared = TRUE]]
    ELSE IF ~totpActive(r.user)
    THEN [g |-> [g EXCEPT !.loginAttempts = clearIpAttempts(@, r.ip),
                          !.issued = @ (+) SetToBag({signToken(r, g.now)})],
          r |-> [r EXCEPT !.pc = "rec_insert", !.path = "ok", !.compared = TRUE,
                          !.cookie = r.userId]]
    ELSE [g |-> [g EXCEPT !.loginAttempts = clearIpAttempts(@, r.ip)],
          r |-> [r EXCEPT !.pc = "purge", !.compared = TRUE]]

\* auth.ts 134-160: await bcrypt.compare; wrong: recordIpAttempt;
\* right: clearIpAttempts, then the branch on totpEnabled / totpSecret
LoginCompare(g, r) ==
    LET ok == bcryptCompare(r.password, r.user.passwordHash) IN
    IF ~ok
    THEN [g |-> [g EXCEPT !.loginAttempts = recordIpAttempt(@, r.ip, g.now),
                          !.ipFails = noteFailure(g, r.ip)],
          r |-> [r EXCEPT !.pc = "rec_insert", !.path = "badpw", !.compared = TRUE]]
    ELSE [g |-> [g EXCEPT !.loginAttempts = clearIpAttempts(@, r.ip)],
          r |-> IF ~totpActive(r.user)
                THEN [r EXCEPT !.pc = "rec_insert", !.path = "ok", !.compared = TRUE]
                ELSE [r EXCEPT !.pc = "purge", !.compared = TRUE]]

\* auth.ts 180-190: await loginChallenge.deleteMany; then expiresAt is computed
LoginPurge(g, r) ==
    LET keep == {c \in DOMAIN g.challenges :
                   ~(/\ g.challenges[c].userId = r.userId
                     /\ \/ g.challenges[c].expiresAt < g.now
                        \/ g.challenges[c].usedAt # Null)}
    IN [g |-> [g EXCEPT !.challenges = [c \in keep |-> g.challenges[c]]],
        r |-> [r EXCEPT !.pc = "create", !.t = challengeExpiry(g.now)]]

\* auth.ts 191-204: await loginChallenge.create; res.json({ totpRequired: true })
LoginCreateChallenge(g, r) ==
    LET id == g.nextChallenge
        row == [userId |-> r.userId, createdAt |-> g.now, expiresAt |-> r.t,
                usedAt |-> Null]
    IN [g |-> [g EXCEPT !.challenges = [c \in DOMAIN g.challenges \cup {id} |->
                                          IF c = id THEN row ELSE g.challenges[c]],
                        !.nextChallenge = id + 1,
                        !.ipFails = noteSuccess(g, r.ip)],
        r |-> [r EXCEPT !.pc = "done", !.status = 200, !.totpRequired = TRUE,
                        !.respChallenge = id, !.respExpiresAt = r.t]]

\* ------------------------------------- rateLimit: recordLoginAttempt steps
\* (challenge is not a column: it notes the challenge a second-factor attempt
\* was made against, 0 for a first-factor attempt)
ledgerRow(r, success, t) ==
    [email |-> r.email, success |-> success, createdAt |-> t, userId |-> r.userId,
     challenge |-> r.challengeId]

\* the code that runs in the caller once recordLoginAttempt has returned
\* auth.ts 131 (no user), 140-148 (wrong password), 349-352 (wrong code)
afterFailure(r, accountLocked) ==
    IF r.path = "badpw" /\ accountLocked
    THEN respond(r, 423, "ACCOUNT_LOCKED", LOCKOUT_DURATION_MS \div 1000)
    ELSE IF r.path = "totpbad"
         THEN respond(r, 401, "INVALID_TOTP", Null)
         ELSE respond(r, 401, "Invalid credentials", Null)

\* variant: a row equal to one the table holds is not stored again
RecInsert_upsert(g, r) ==
    LET success == r.path \in {"ok", "totpok"} IN
    [g |-> [g EXCEPT !.ledger =
                SetToBag(BagToSet(@) \cup {ledgerRow(r, success, g.now)})],
     r |-> [r EXCEPT !.pc = IF success THEN "rec_clear" ELSE "rec_count"]]

\* rateLimit 175-183: await prisma.loginAttempt.create
RecInsert(g, r) ==
    LET success == r.path \in {"ok", "totpok"} IN
    [g |-> [g EXCEPT !.ledger = @ (+) SetToBag({ledgerRow(r, success, g.now)})],
     r |-> [r EXCEPT !.pc = IF success THEN "rec_clear" ELSE "rec_count"]]

\* rateLimit 186-196: await prisma.loginAttempt.count, compared to the threshold
RecCount(g, r) ==
    LET failedCount == countFailed(g.ledger, r.email, g.now) IN
    [g |-> g,
     r |-> IF failedCount >= LOCKOUT_THRESHOLD
           THEN [r EXCEPT !.pc = "rec_lock"]
           ELSE afterFailure(r, FALSE)]

\* rateLimit 197-203: await prisma.user.updateMany({ lockedUntil: now + 15 min })
RecLock(g, r) ==
    [g |-> [g EXCEPT !.users = [u \in UserIds |->
                IF g.users[u].email = r.email
                THEN [g.users[u] EXCEPT !.lockedUntil = g.now + LOCKOUT_DURATION_MS]
                ELSE g.users[u]]],
     r |-> afterFailure(r, TRUE)]

\* rateLimit 205-211: await prisma.user.updateMany({ lockedUntil: null })
RecClear(g, r) ==
    [g |-> [g EXCEPT !.users = [u \in UserIds |->
                IF g.users[u].email = r.email /\ g.users[u].lockedUntil # Null
                THEN [g.users[u] EXCEPT !.lockedUntil = Null]
                ELSE g.users[u]]],
     r |-> [r EXCEPT !.pc = "lastlogin"]]

\* auth.ts 165-176 and 364-376: await prisma.user.update({ lastLoginAt });
\* (second factor only: clearIpAttempts;) jwt.sign, setAuthCookie, res.json
LastLogin(g, r) ==
    [g |-> [g EXCEPT !.users = [@ EXCEPT ![r.userId].lastLoginAt = g.now],
                     !.loginAttempts = IF r.path = "totpok"
                                       THEN clearIpAttempts(@, r.ip) ELSE @,
                     !.issued = @ (+) SetToBag({signToken(r, g.now)}),
                     !.ipFails = noteSuccess(g, r.ip)],
     r |-> respondSession(r)]

\* ------------------------------------------------- POST /login/totp steps
\* variant: a wrong code uses the challenge up
TotpFind_burn(g, r) ==
    IF r.challengeId \notin DOMAIN g.challenges
    THEN [g |-> g, r |-> respond(r, 404, "Challenge not found", Null)]
    ELSE LET challenge == g.challenges[r.challengeId]
             user == g.users[challenge.userId]
             r1 == [r EXCEPT !.userId = challenge.userId, !.user = user,
                             !.email = user.email, !.t = g.now]
         IN IF challengeGate(challenge, g.now) # ""
            THEN [g |-> g, r |-> respond(r1, 410, challengeGate(challenge, g.now), Null)]
            ELSE IF ~totpActive(user)
            THEN [g |-> g,
                  r |-> respond(r1, 403, "TOTP not configured for this account", Null)]
            ELSE IF ~authenticatorVerify(r.token, user.totpSecret, g.now)
            THEN [g |-> [g EXCEPT !.loginAttempts = recordIpAttempt(@, r.ip, g.now),
                                  !.ipFails = noteFailure(g, r.ip),
                                  !.challenges[r.challengeId].usedAt = g.now],
                  r |-> [r1 EXCEPT !.pc = "rec_insert", !.path = "totpbad"]]
            ELSE [g |-> g, r |-> [r1 EXCEPT !.pc = "t_update", !.path = "totpok"]]

\* variant: the owner's second factor is not looked at
TotpFind_anyOwner(g, r) ==
    IF r.challengeId \notin DOMAIN g.challenges
    THEN [g |-> g, r |-> respond(r, 404, "Challenge not found", Null)]
    ELSE LET challenge == g.challenges[r.challengeId]
             user == g.users[challenge.userId]
             r1 == [r EXCEPT !.userId = challenge.userId, !.user = user,
                             !.email = user.email, !.t = g.now]
         IN IF challengeGate(challenge, g.now) # ""
            THEN [g |-> g, r |-> respond(r1, 410, challengeGate(challenge, g.now), Null)]
            ELSE IF ~authenticatorVerify(r.token, user.totpSecret, g.now)
            THEN [g |-> [g EXCEPT !.loginAttempts = recordIpAttempt(@, r.ip, g.now),
                                  !.ipFails = noteFailure(g, r.ip)],
                  r |-> [r1 EXCEPT !.pc = "rec_insert", !.path = "totpbad"]]
            ELSE [g |-> g, r |-> [r1 EXCEPT !.pc = "t_update", !.path = "totpok"]]

\* auth.ts 317-353: await loginChallenge.findUnique({ include: user }); the
\* checks on the row read; authenticator.verify; wrong code: recordIpAttempt
TotpFind(g, r) ==
    IF r.challengeId \notin DOMAIN g.challenges
    THEN [g |-> g, r |-> respond(r, 404, "Challenge not found", Null)]
    ELSE LET challenge == g.challenges[r.challengeId]
             user == g.users[challenge.userId]
             r1 == [r EXCEPT !.userId = challenge.userId, !.user = user,
                             !.email = user.email, !.t = g.now]
         IN IF challengeGate(challenge, g.now) # ""
            THEN [g |-> g, r |-> respond(r1, 410, challengeGate(challenge, g.now), Null)]
            ELSE IF ~totpActive(user)
            THEN [g |-> g,
                  r |-> respond(r1, 403, "TOTP not configured for this account", Null)]
            ELSE IF ~authenticatorVerify(r.token, user.totpSecret, g.now)
            THEN [g |-> [g EXCEPT !.loginAttempts = recordIpAttempt(@, r.ip, g.now),
                                  !.ipFails = noteFailure(g, r.ip)],
                  r |-> [r1 EXCEPT !.pc = "rec_insert", !.path = "totpbad"]]
            ELSE [g |-> g, r |-> [r1 EXCEPT !.pc = "t_update", !.path = "totpok"]]

\* auth.ts 355-358: await loginChallenge.update({ where: { id }, usedAt: now });
\* prisma rejects the update of a row that is gone (errorHandler: 500)
TotpUpdate(g, r) ==
    IF r.challengeId \in DOMAIN g.challenges
    THEN [g |-> [g EXCEPT !.challenges[r.challengeId].usedAt = r.t],
          r |-> [r EXCEPT !.pc = "rec_insert"]]
    ELSE [g |-> g, r |-> respond(r, 500, "Internal server error", Null)]

\* ------------------------------------------------- middleware/auth (gate)
\* variant: the cookie is looked at first
getTokenFromRequest_cookieFirst(auth) ==
    IF auth.cookie # NoJwt THEN auth.cookie ELSE auth.header

\* auth 262-269: the Bearer token of the Authorization header, else the cookie
getTokenFromRequest(auth) == IF auth.header # NoJwt THEN auth.header ELSE auth.cookie

\* auth 271-284: next() is always called; the identity is attached when the
\* token verifies and has a subject
optionalAuth(r, t) ==
    LET token == getTokenFromRequest(r.auth)
        payload == jwtVerify(token, t)
    IN IF token = NoJwt THEN r
       ELSE IF ~payload.thrown /\ payload.sub # "" THEN [r EXCEPT !.identity = payload.sub]
       ELSE r

\* variant: a token without a subject is let through
requireAuth_anysub(r, t) ==
    LET token == getTokenFromRequest(r.auth)
        payload == jwtVerify(token, t)
    IN IF token = NoJwt THEN respond(r, 401, "Unauthorized", Null)
       ELSE IF payload.thrown THEN respond(r, 401, "Unauthorized", Null)
       ELSE [r EXCEPT !.identity = payload.sub]

\* auth 286-298: 401 without next() unless the token verifies and has a subject
requireAuth(r, t) ==
    LET token == getTokenFromRequest(r.auth)
        payload == jwtVerify(token, t)
    IN IF token = NoJwt THEN respond(r, 401, "Unauthorized", Null)
       ELSE IF payload.thrown THEN respond(r, 401, "Unauthorized", Null)
       ELSE IF payload.sub = "" THEN respond(r, 401, "Unauthorized", Null)
       ELSE [r EXCEPT !.identity = payload.sub]

\* a request behind optionalAuth / requireAuth, with the credential it carries
NewGated(kind, pc, auth) == [IdleReq EXCEPT !.kind = kind, !.pc = pc, !.auth = auth]

\* routes/posts GET /posts: optionalAuth; await post.findMany; res.json
PostsList(g, r) ==
    LET r1 == optionalAuth(r, g.now) IN
    [g |-> g, r |-> [respond(r1, 200, "", Null) EXCEPT !.handled = TRUE]]

\* auth.ts 382-394 GET /me: requireAuth; await user.findUnique; res.json
MeFind(g, r) ==
    LET r1 == requireAuth(r, g.now) IN
    IF r1.pc = "done" THEN [g |-> g, r |-> r1]
    ELSE IF r1.identity \notin DOMAIN g.users
    THEN [g |-> g, r |-> [respond(r1, 404, "Not found", Null) EXCEPT !.handled = TRUE]]
    ELSE [g |-> g,
          r |-> [respond(r1, 200, "", Null) EXCEPT !.handled = TRUE,
                                                  !.userId = r1.identity]]

\* ------------------------------------------ POST /totp/setup|enable|disable
\* variant: a new secret may be set up while TOTP is enabled
SetupFind_again(g, r) ==
    LET r1 == requireAuth(r, g.now) IN
    IF r1.pc = "done" THEN [g |-> g, r |-> r1]
    ELSE IF r1.identity \notin DOMAIN g.users
    THEN [g |-> g, r |-> [respond(r1, 404, "Not found", Null) EXCEPT !.handled = TRUE]]
    ELSE [g |-> g,
          r |-> [r1 EXCEPT !.pc = "s_update", !.handled = TRUE, !.userId = r1.identity]]

\* auth.ts 227-241: requireAuth; await user.findUnique; 404; 409 when enabled;
\* authenticator.generateSecret() (the secret drawn is r.secret)
SetupFind(g, r) ==
    LET r1 == requireAuth(r, g.now) IN
    IF r1.pc = "done" THEN [g |-> g, r |-> r1]
    ELSE IF r1.identity \notin DOMAIN g.users
    THEN [g |-> g, r |-> [respond(r1, 404, "Not found", Null) EXCEPT !.handled = TRUE]]
    ELSE IF g.users[r1.identity].totpEnabled
    THEN [g |-> g,
          r |-> [respond(r1, 409, "TOTP already enabled", Null) EXCEPT !.handled = TRUE]]
    ELSE [g |-> g,
          r |-> [r1 EXCEPT !.pc = "s_update", !.handled = TRUE, !.userId = r1.identity]]

\* auth.ts 243-248: await user.update({ totpSecret, totpEnabled: false })
SetupUpdate(g, r) ==
    [g |-> [g EXCEPT !.users[r.userId].totpSecret = r.secret,
                     !.users[r.userId].totpEnabled = FALSE,
                     !.users[r.userId].phase = "SETUP_PENDING"],
     r |-> respond(r, 200, "", Null)]

\* variant: the code is not verified
EnableFind_unchecked(g, r) ==
    LET r1 == requireAuth(r, g.now) IN
    IF r1.pc = "done" THEN [g |-> g, r |-> r1]
    ELSE IF r1.identity \notin DOMAIN g.users
    THEN [g |-> g, r |-> [respond(r1, 404, "Not found", Null) EXCEPT !.handled = TRUE]]
    ELSE LET user == g.users[r1.identity]
             r2 == [r1 EXCEPT !.handled = TRUE, !.userId = r1.identity] IN
         IF user.totpSecret = ""
         THEN [g |-> g, r |-> respond(r2, 400, "No TOTP secret. Run setup first.", Null)]
         ELSE [g |-> g, r |-> [r2 EXCEPT !.pc = "e_update"]]

\* auth.ts 262-277: requireAuth; await user.findUnique; 404; 400 without a
\* secret; authenticator.verify with window 1, 401 on a wrong code
EnableFind(g, r) ==
    LET r1 == requireAuth(r, g.now) IN
    IF r1.pc = "done" THEN [g |-> g, r |-> r1]
    ELSE IF r1.identity \notin DOMAIN g.users
    THEN [g |-> g, r |-> [respond(r1, 404, "Not found", Null) EXCEPT !.handled = TRUE]]
    ELSE LET user == g.users[r1.identity]
             r2 == [r1 EXCEPT !.handled = TRUE, !.userId = r1.identity] IN
         IF user.totpSecret = ""
         THEN [g |-> g, r |-> respond(r2, 400, "No TOTP secret. Run setup first.", Null)]
         ELSE IF ~authenticatorVerify(r.token, user.totpSecret, g.now)
         THEN [g |-> g, r |-> respond(r2, 401, "Invalid TOTP code", Null)]
         ELSE [g |-> g, r |-> [r2 EXCEPT !.pc = "e_update"]]

\* variant: the secret is dropped once its code has been confirmed
EnableUpdate_consume(g, r) ==
    [g |-> [g EXCEPT !.users[r.userId].totpEnabled = TRUE,
                     !.users[r.userId].totpSecret = "",
                     !.users[r.userId].phase = "ENABLED"],
     r |-> respond(r, 200, "", Null)]

\* auth.ts 278-283: await user.update({ totpEnabled: true })
EnableUpdate(g, r) ==
    [g |-> [g EXCEPT !.users[r.userId].totpEnabled = TRUE,
                     !.users[r.userId].phase = "ENABLED"],
     r |-> respond(r, 200, "", Null)]

\* variant: the secret is dropped with the flag
DisableUpdate_wipe(g, r) ==
    LET r1 == requireAuth(r, g.now) IN
    IF r1.pc = "done" THEN [g |-> g, r |-> r1]
    ELSE IF r1.identity \notin DOMAIN g.users
    THEN [g |-> g,
          r |-> [respond(r1, 500, "Internal server error", Null) EXCEPT !.handled = TRUE]]
    ELSE [g |-> [g EXCEPT !.users[r1.identity].totpEnabled = FALSE,
                          !.users[r1.identity].totpSecret = "",
                          !.users[r1.identity].phase =
                              IF @ = "ENABLED" THEN "DISABLED" ELSE @],
          r |-> [respond(r1, 200, "", Null) EXCEPT !.handled = TRUE,
                                                  !.userId = r1.identity]]

\* auth.ts 289-300: requireAuth; await user.update({ totpEnabled: false });
\* prisma rejects the update of a row that does not exist (errorHandler: 500)
DisableUpdate(g, r) ==
    LET r1 == requireAuth(r, g.now) IN
    IF r1.pc = "done" THEN [g |-> g, r |-> r1]
    ELSE IF r1.identity \notin DOMAIN g.users
    THEN [g |-> g,
          r |-> [respond(r1, 500, "Internal server error", Null) EXCEPT !.handled = TRUE]]
    ELSE [g |-> [g EXCEPT !.users[r1.identity].totpEnabled = FALSE,
                          !.users[r1.identity].phase =
                              IF @ = "ENABLED" THEN "DISABLED" ELSE @],
          r |-> [respond(r1, 200, "", Null) EXCEPT !.handled = TRUE,
                                                  !.userId = r1.identity]]

\* ------------------------------------------- POST /password, POST /logout
\* auth.ts 428-455: requireAuth; await user.findUnique; 404; bcrypt.compare of
\* the current password, 401; of the new one, 400 when it is the old one; with
\* TOTP on, 400 without a code and 401 on a wrong one; bcrypt.hash
PwFind(g, r) ==
    LET r1 == requireAuth(r, g.now) IN
    IF r1.pc = "done" THEN [g |-> g, r |-> r1]
    ELSE IF r1.identity \notin DOMAIN g.users
    THEN [g |-> g, r |-> [respond(r1, 404, "Not found", Null) EXCEPT !.handled = TRUE]]
    ELSE LET user == g.users[r1.identity]
             r2 == [r1 EXCEPT !.handled = TRUE, !.userId = r1.identity, !.user = user]
         IN IF ~bcryptCompare(r.password, user.passwordHash)
            THEN [g |-> g, r |-> respond(r2, 401, "Wrong current password", Null)]
            ELSE IF bcryptCompare(r.newPassword, user.passwordHash)
            THEN [g |-> g, r |-> respond(r2, 400, "New password equals the old one", Null)]
            ELSE IF totpActive(user) /\ r.token = NoToken
            THEN [g |-> g, r |-> respond(r2, 400, "TOTP code required", Null)]
            ELSE IF totpActive(user)
                    /\ ~authenticatorVerify(r.token, user.totpSecret, g.now)
            THEN [g |-> g, r |-> respond(r2, 401, "Invalid TOTP code", Null)]
            ELSE [g |-> g, r |-> [r2 EXCEPT !.pc = "pw_update"]]

\* auth.ts 456-466: await user.update({ passwordHash }); jwt.sign;
\* setAuthCookie; res.json({ ok: true })
PwUpdate(g, r) ==
    [g |-> [g EXCEPT !.users[r.userId].passwordHash = bcryptHash(r.newPassword),
                     !.issued = @ (+) SetToBag({signToken(r, g.now)})],
     r |-> respondSession(r)]

\* variant: logging out writes to the account rows
LogoutRespond_touch(g, r) ==
    [g |-> [g EXCEPT !.users = [u \in DOMAIN g.users |->
                                  [g.users[u] EXCEPT !.lastLoginAt = g.now]]],
     r |-> respond(r, 200, "", Null)]

\* auth.ts 471-474: clearAuthCookie(res); res.json({ ok: true })
LogoutRespond(g, r) == [g |-> g, r |-> respond(r, 200, "", Null)]

\* ------------------------------------------------------ request bodies
\* zod's z.string().email() on the addresses clients send
IsEmail(raw) == raw \in {"a@x.com", "A@X.com", "nobody@x.com"}

\* variant: the login body is taken as it comes
LoginSchema_lax(body) == TRUE

\* auth.ts 79-82: email is an address, password has at least one character
LoginSchema(body) == IsEmail(body.email) /\ body.password # ""

\* auth.ts 302-309: challengeId is a UUID, code is 6 to 8 digits
VerifyTotpSchema(body) ==
    body.challengeId.form = "uuid" /\ body.code.form = "digits"

\* auth.ts 85-89, 207: LoginSchema.parse(req.body) inside the try; what it
\* throws goes to next(err)
ParseLogin(body, ip) ==
    IF LoginSchema(body)
    THEN [NewLogin(body.email, ip, body.password) EXCEPT !.body = body]
    ELSE errorHandler([IdleReq EXCEPT !.kind = "login", !.ip = ip, !.body = body])

\* auth.ts 312-316, 378: VerifyTotpSchema.parse(req.body) inside the try
ParseTotp(body, ip) ==
    IF VerifyTotpSchema(body)
    THEN [NewTotp(body.challengeId.n, body.code.tok, ip) EXCEPT !.body = body]
    ELSE errorHandler([IdleReq EXCEPT !.kind = "totp", !.ip = ip, !.body = body])

\* --------------------------------------------------- one step, and a run
Step(g, r) ==
    CASE r.pc = "ip" -> LoginIpGuard(g, r)
      [] r.pc = "lockout" -> LoginLockout(g, r)
      [] r.pc = "emailcheck" -> LoginEmailCheck(g, r)
      [] r.pc = "find" -> LoginFind(g, r)
      [] r.pc = "compare" -> LoginCompare(g, r)
      [] r.pc = "purge" -> LoginPurge(g, r)
      [] r.pc = "create" -> LoginCreateChallenge(g, r)
      [] r.pc = "rec_insert" -> RecInsert(g, r)
      [] r.pc = "rec_count" -> RecCount(g, r)
      [] r.pc = "rec_lock" -> RecLock(g, r)
      [] r.pc = "rec_clear" -> RecClear(g, r)
      [] r.pc = "lastlogin" -> LastLogin(g, r)
      [] r.pc = "t_find" -> TotpFind(g, r)
      [] r.pc = "t_update" -> TotpUpdate(g, r)
      [] r.pc = "p_list" -> PostsList(g, r)
      [] r.pc = "m_find" -> MeFind(g, r)
      [] r.pc = "s_find" -> SetupFind(g, r)
      [] r.pc = "s_update" -> SetupUpdate(g, r)
      [] r.pc = "e_find" -> EnableFind(g, r)
      [] r.pc = "e_update" -> EnableUpdate(g, r)
      [] r.pc = "d_update" -> DisableUpdate(g, r)
      [] r.pc = "pw_find" -> PwFind(g, r)
      [] r.pc = "pw_update" -> PwUpdate(g, r)
      [] r.pc = "logout" -> LogoutRespond(g, r)

\* a handler run from its first step to its response, no other request between
RECURSIVE Run(_)
Run(st) == IF InFlight(st.r) THEN Run(Step(st.g, st.r)) ELSE st

\* the stores take the values of g
CommitStores(g) ==
    /\ loginAttempts' = g.loginAttempts
    /\ ledger' = g.ledger
    /\ users' = g.users
    /\ challenges' = g.challenges
    /\ nextChallenge' = g.nextChallenge
    /\ issued' = g.issued
    /\ ipFails' = g.ipFails

\* the stores and slot s take the values of st
Commit(s, st) ==
    /\ CommitStores(st.g)
    /\ reqs' = [reqs EXCEPT ![s] = st.r]

\* -------------------------------------------------------------------- Init
InitUsers ==
    {[u \in UserIds |->
        [email |-> EmailOf[u], passwordHash |-> bcryptHash("P@ssw0rd1"),
         totpSecret |-> cfg[1], totpEnabled |-> cfg[2],
         lockedUntil |-> Null, lastLoginAt |-> Null,
         phase |-> IF cfg[2] THEN "ENABLED" ELSE "NONE"]] :
     cfg \in {<<"", FALSE>>, <<"S1", TRUE>>}}

\* The tables and the tracker after k[1] logins with a wrong password for
\* a@x.com from ip1 and k[2] from ip2, all at time 0 (fewer than
\* LOCKOUT_THRESHOLD in all, at most IP_MAX_ATTEMPTS from one ip): the rows
\* RecInsert writes and the buckets recordIpAttempt builds.
RECURSIVE recordIpAttempts(_, _, _, _)
recordIpAttempts(la, ip, t, k) ==
    IF k = 0 THEN la ELSE recordIpAttempts(recordIpAttempt(la, ip, t), ip, t, k - 1)

WarmUps == {<<0, 0>>, <<4, 5>>}

WarmLedger(k) ==
    LET row == [email |-> "a@x.com", success |-> FALSE, createdAt |-> 0,
                userId |-> "u1", challenge |-> 0]
    IN IF k = 0 THEN EmptyBag ELSE [x \in {row} |-> k]

Init ==
    /\ now = 0
    /\ ticks = 0
    /\ started = 0
    /\ users \in InitUsers
    /\ \E k \in WarmUps :
        /\ ledger = WarmLedger(k[1] + k[2])
        /\ loginAttempts =
              recordIpAttempts(recordIpAttempts(<<>>, "ip1", 0, k[1]), "ip2", 0, k[2])
        /\ ipFails = [i \in IPs |->
              [j \in 1..(IF i = "ip1" THEN k[1] ELSE k[2]) |-> 0]]
    /\ challenges = <<>>
    /\ nextChallenge = 1
    /\ reqs = [s \in Slots |-> IdleReq]
    /\ issued = EmptyBag

\* ----------------------------------------------------------------- inputs
\* the codes a client sends: the code of the account's secret for the current
\* time step, and its code of two steps ago
TokenInputs ==
    {totpToken(sec, st) : sec \in Secrets, st \in {totpStep(now), totpStep(now) - 2}}

\* the credentials a client sends: the account's email with its password or
\* with a wrong one, the same address in capitals, and
\* an email that has no account
LoginInputs ==
    {<<"a@x.com", "P@ssw0rd1">>, <<"a@x.com", "wrong">>, <<"nobody@x.com", "wrong">>,
     <<"A@X.com", "P@ssw0rd1">>}

\* ---------------------------------------------------------------- actions
\* POST /login, from the request to its response
Login ==
    \E c \in LoginInputs, ip \in IPs :
        /\ Quiet
        /\ started < MaxRequests
        /\ started' = started + 1
        /\ Commit(1, Run([g |-> G, r |-> NewLogin(c[1], ip, c[2])]))
        /\ UNCHANGED <<now, ticks>>

\* POST /login/totp, from the request to its response
LoginTotp ==
    \E id \in 1..(nextChallenge - 1), tok \in TokenInputs, ip \in IPs :
        /\ Quiet
        /\ started < MaxRequests
        /\ started' = started + 1
        /\ Commit(1, Run([g |-> G, r |-> NewTotp(id, tok, ip)]))
        /\ UNCHANGED <<now, ticks>>

\* the clock moves on; the responses already sent are forgotten
Tick ==
    \E d \in Deltas :
        /\ Quiet
        /\ ticks < MaxTicks
        /\ now' = now + d
        /\ ticks' = ticks + 1
        /\ ipFails' = [i \in IPs |->
                SelectSeq(ipFails[i], LAMBDA t : t >= now + d - IP_WINDOW_MS)]
        /\ reqs' = [s \in Slots |-> IdleReq]
        /\ UNCHANGED <<started, loginAttempts, ledger, users, challenges,
                       nextChallenge, issued>>

Next == Login \/ LoginTotp \/ Tick

Spec == Init /\ [][Next]_vars

\* ------------------------------------------------ interleaved requests
\* a request arrives and waits for its first store operation
BeginLogin ==
    \E s \in Slots, c \in LoginInputs, ip \in IPs :
        /\ ~InFlight(reqs[s])
        /\ started < MaxRequests
        /\ started' = started + 1
        /\ reqs' = [reqs EXCEPT ![s] = NewLogin(c[1], ip, c[2])]
        /\ UNCHANGED <<now, ticks, loginAttempts, ledger, users, challenges,
                       nextChallenge, issued, ipFails>>

BeginTotp ==
    \E s \in Slots, id \in 1..(nextChallenge - 1), tok \in TokenInputs, ip \in IPs :
        /\ ~InFlight(reqs[s])
        /\ started < MaxRequests
        /\ started' = started + 1
        /\ reqs' = [reqs EXCEPT ![s] = NewTotp(id, tok, ip)]
        /\ UNCHANGED <<now, ticks, loginAttempts, ledger, users, challenges,
                       nextChallenge, issued, ipFails>>

\* the event loop resumes one waiting request for one step
StepReq ==
    \E s \in Slots :
        /\ InFlight(reqs[s])
        /\ Commit(s, Step(G, reqs[s]))
        /\ UNCHANGED <<now, ticks, started>>

NextConc == BeginLogin \/ BeginTotp \/ StepReq

SpecConc == Init /\ [][NextConc]_vars

\* ------------------------------------------- paired logins (enumeration)
\* The same login with a wrong password is sent for the email that has an
\* account (from ip1) and for the email that has none (from ip2), at the same
\* instant.  The two runs share no bucket and no row, so each one is a run of
\* its own against a fresh system.
InitEnum ==
    /\ now = 0
    /\ ticks = 0
    /\ started = 0
    /\ users \in InitUsers
    /\ ledger = EmptyBag
    /\ loginAttempts = <<>>
    /\ ipFails = [i \in IPs |-> <<>>]
    /\ challenges = <<>>
    /\ nextChallenge = 1
    /\ reqs = [s \in Slots |-> IdleReq]
    /\ issued = EmptyBag

PairedLogin ==
    LET st1 == Run([g |-> G, r |-> NewLogin("a@x.com", "ip1", "wrong")])
        st2 == Run([g |-> st1.g, r |-> NewLogin("nobody@x.com", "ip2", "wrong")])
    IN /\ Quiet
       /\ started < 2 * MaxPairs
       /\ started' = started + 2
       /\ CommitStores(st2.g)
       /\ reqs' = [reqs EXCEPT ![1] = st1.r, ![2] = st2.r]
       /\ UNCHANGED <<now, ticks>>

NextEnum == PairedLogin \/ Tick

SpecEnum == InitEnum /\ [][NextEnum]_vars

\* ------------------------------------------------------ the long run
\* the clock moves by a millisecond, the lockout duration or the ledger window
LongDeltas == {1, LOCKOUT_DURATION_MS, EMAIL_WINDOW_MS}

LongTick ==
    \E d \in LongDeltas :
        /\ Quiet
        /\ ticks < MaxTicks
        /\ now' = now + d
        /\ ticks' = ticks + 1
        /\ ipFails' = [i \in IPs |->
                SelectSeq(ipFails[i], LAMBDA t : t >= now + d - IP_WINDOW_MS)]
        /\ reqs' = [s \in Slots |-> IdleReq]
        /\ UNCHANGED <<started, loginAttempts, ledger, users, challenges,
                       nextChallenge, issued>>

NextLong == Login \/ LoginTotp \/ LongTick

SpecLong == Init /\ [][NextLong]_vars

\* ------------------------------------------------------- failing writes
\* the steps whose awaited operation writes to a table
StoreWrites == {"rec_insert", "rec_lock", "rec_clear", "lastlogin", "purge", "create",
                "t_update"}

\* a handler run in which the k-th write it attempts is rejected by the
\* database: the await throws, the catch block calls next(err); k = 0: none
RECURSIVE RunFault(_, _)
RunFault(st, k) ==
    IF ~InFlight(st.r) THEN st
    ELSE IF st.r.pc \in StoreWrites
    THEN IF k = 1 THEN [g |-> st.g, r |-> errorHandler(st.r)]
         ELSE RunFault(Step(st.g, st.r), k - 1)
    ELSE RunFault(Step(st.g, st.r), k)

FaultPoints == 0..4

LoginFault ==
    \E c \in LoginInputs, ip \in IPs, k \in FaultPoints :
        /\ Quiet
        /\ started < MaxFaulty
        /\ started' = started + 1
        /\ Commit(1, RunFault([g |-> G, r |-> NewLogin(c[1], ip, c[2])], k))
        /\ UNCHANGED <<now, ticks>>

LoginTotpFault ==
    \E id \in 1..(nextChallenge - 1), tok \in TokenInputs, ip \in IPs, k \in FaultPoints :
        /\ Quiet
        /\ started < MaxFaulty
        /\ started' = started + 1
        /\ Commit(1, RunFault([g |-> G, r |-> NewTotp(id, tok, ip)], k))
        /\ UNCHANGED <<now, ticks>>

NextFault == LoginFault \/ LoginTotpFault \/ Tick

SpecFault == InitEnum /\ [][NextFault]_vars

\* ------------------------------------------- second-factor management
\* the credentials of a TOTP management request: none, or the cookie set at
\* signup (time 0)
SessionInputs == {NoAuth, [header |-> NoJwt, cookie |-> jwtSign("u1", 0)]}

\* the secrets authenticator.generateSecret() may draw
SetupSecrets == {"S1", "S2"}

\* the codes sent to /totp/enable: the current code of either secret, and the
\* code of S1 of two steps ago
EnableInputs ==
    {totpToken(sec, totpStep(now)) : sec \in SetupSecrets}
    \cup {totpToken("S1", totpStep(now) - 2)}

InitAccount == InitEnum /\ ~users["u1"].totpEnabled

TotpSetup ==
    \E a \in SessionInputs, sec \in SetupSecrets :
        /\ Quiet
        /\ started < MaxRequests
        /\ started' = started + 1
        /\ Commit(1, Run([g |-> G,
                          r |-> [NewGated("setup", "s_find", a) EXCEPT !.secret = sec]]))
        /\ UNCHANGED <<now, ticks>>

TotpEnable ==
    \E a \in SessionInputs, tok \in EnableInputs :
        /\ Quiet
        /\ started < MaxRequests
        /\ started' = started + 1
        /\ Commit(1, Run([g |-> G,
                          r |-> [NewGated("enable", "e_find", a) EXCEPT !.token = tok]]))
        /\ UNCHANGED <<now, ticks>>

TotpDisable ==
    \E a \in SessionInputs :
        /\ Quiet
        /\ started < MaxRequests
        /\ started' = started + 1
        /\ Commit(1, Run([g |-> G, r |-> NewGated("disable", "d_update", a)]))
        /\ UNCHANGED <<now, ticks>>

NextAccount == Login \/ LoginTotp \/ TotpSetup \/ TotpEnable \/ TotpDisable \/ Tick

SpecAccount == InitAccount /\ [][NextAccount]_vars

\* ------------------------------------------------------------ the gate
\* The tokens a client can hold: the one signed at signup (time 0), one signed
\* with another key, one signed with the key but without a subject; sent in
\* the Authorization header, in the cookie, or not at all.  A request may
\* carry both a header and a cookie: a forged header with the good cookie, the
\* token of another account (u2, whose row the model leaves out) with the
\* cookie of u1, the good header with a forged cookie.
GateTokens ==
    {jwtSign("u1", 0), [jwtSign("u1", 0) EXCEPT !.sig = "other"], jwtSign("", 0)}

GateInputs ==
    {NoAuth}
    \cup {[header |-> tk, cookie |-> NoJwt] : tk \in GateTokens}
    \cup {[header |-> NoJwt, cookie |-> tk] : tk \in GateTokens}
    \cup {[header |-> [jwtSign("u1", 0) EXCEPT !.sig = "other"],
           cookie |-> jwtSign("u1", 0)],
          [header |-> jwtSign("u2", 0), cookie |-> jwtSign("u1", 0)],
          [header |-> jwtSign("u1", 0),
           cookie |-> [jwtSign("u1", 0) EXCEPT !.sig = "other"]]}

GateDeltas == {1000, JWT_TTL_S * 1000 - 1000}

Posts ==
    \E a \in GateInputs :
        /\ Quiet
        /\ started < MaxRequests
        /\ started' = started + 1
        /\ Commit(1, Run([g |-> G, r |-> NewGated("posts", "p_list", a)]))
        /\ UNCHANGED <<now, ticks>>

Me ==
    \E a \in GateInputs :
        /\ Quiet
        /\ started < MaxRequests
        /\ started' = started + 1
        /\ Commit(1, Run([g |-> G, r |-> NewGated("me", "m_find", a)]))
        /\ UNCHANGED <<now, ticks>>

\* the clock moves by a second, or to the second before the token's expiry
GateTick ==
    \E d \in GateDeltas :
        /\ Quiet
        /\ ticks < MaxTicks
        /\ now' = now + d
        /\ ticks' = ticks + 1
        /\ reqs' = [s \in Slots |-> IdleReq]
        /\ UNCHANGED <<started, loginAttempts, ledger, users, challenges,
                       nextChallenge, issued, ipFails>>

NextGate == Posts \/ Me \/ GateTick

SpecGate == InitEnum /\ [][NextGate]_vars

\* ------------------------------------------------- sessions over time
\* the passwords clients send to /password, as the current and as the new one
PasswordInputs == {"P@ssw0rd1", "N3wP@ssw0rd"}

Password ==
    \E a \in SessionInputs, cur \in PasswordInputs, new \in PasswordInputs,
       tok \in {NoToken} \cup TokenInputs :
        /\ Quiet
        /\ started < MaxRequests
        /\ started' = started + 1
        /\ Commit(1, Run([g |-> G,
                          r |-> [NewGated("password", "pw_find", a)
                                   EXCEPT !.password = cur, !.newPassword = new,
                                          !.token = tok]]))
        /\ UNCHANGED <<now, ticks>>

Logout ==
    \E a \in SessionInputs :
        /\ Quiet
        /\ started < MaxRequests
        /\ started' = started + 1
        /\ Commit(1, Run([g |-> G, r |-> NewGated("logout", "logout", a)]))
        /\ UNCHANGED <<now, ticks>>

NextSession == Password \/ Logout \/ Me \/ GateTick

SpecSession == InitEnum /\ [][NextSession]_vars

\* ------------------------------------------------------- bodies as sent
\* the login bodies clients send: a well-formed or an ill-formed address with
\* the right, a wrong or an empty password
LoginBodies ==
    {[NoBody EXCEPT !.email = e, !.password = pw] :
        e \in {"a@x.com", "not-an-email"}, pw \in {"P@ssw0rd1", "wrong", ""}}

\* the verification bodies clients send: the id of a challenge or a string
\* that is no UUID, with a code of six digits, one of five, or one with letters
TotpBodies ==
    {[NoBody EXCEPT !.challengeId = id, !.code = c] :
        id \in {[form |-> "uuid", n |-> k] : k \in 1..(nextChallenge - 1)}
               \cup {[form |-> "text", n |-> 0]},
        c \in {[form |-> "digits", tok |-> t] : t \in TokenInputs}
              \cup {[form |-> "short", tok |-> NoToken],
                    [form |-> "letters", tok |-> NoToken]}}

LoginBody ==
    \E b \in LoginBodies, ip \in IPs :
        /\ Quiet
        /\ started < MaxRequests
        /\ started' = started + 1
        /\ Commit(1, Run([g |-> G, r |-> ParseLogin(b, ip)]))
        /\ UNCHANGED <<now, ticks>>

TotpBody ==
    \E b \in TotpBodies, ip \in IPs :
        /\ Quiet
        /\ started < MaxRequests
        /\ started' = started + 1
        /\ Commit(1, Run([g |-> G, r |-> ParseTotp(b, ip)]))
        /\ UNCHANGED <<now, ticks>>

NextInput == LoginBody \/ TotpBody \/ Tick

SpecInput == InitEnum /\ [][NextInput]_vars

\* ---------------------------------------------- one challenge, many codes
\* The account has its second factor on and has just passed the password
\* step: challenge 1 is open.  Verifications follow, with right and wrong
\* codes, from either address.
InitRetry ==
    \E us \in {x \in InitUsers : \A u \in UserIds : x[u].totpEnabled} :
        LET cold == [now |-> 0, loginAttempts |-> <<>>, ledger |-> EmptyBag,
                     users |-> us, challenges |-> <<>>, nextChallenge |-> 1,
                     issued |-> EmptyBag, ipFails |-> [i \in IPs |-> <<>>]]
            st == Run([g |-> cold, r |-> NewLogin("a@x.com", "ip1", "P@ssw0rd1")])
        IN /\ now = 0
           /\ ticks = 0
           /\ started = 0
           /\ users = st.g.users
           /\ ledger = st.g.ledger
           /\ loginAttempts = st.g.loginAttempts
           /\ ipFails = st.g.ipFails
           /\ challenges = st.g.challenges
           /\ nextChallenge = st.g.nextChallenge
           /\ issued = st.g.issued
           /\ reqs = [s \in Slots |-> IdleReq]

VerifyTry ==
    \E id \in 1..(nextChallenge - 1), tok \in TokenInputs, ip \in IPs :
        /\ Quiet
        /\ started < MaxCodes
        /\ started' = started + 1
        /\ Commit(1, Run([g |-> G, r |-> NewTotp(id, tok, ip)]))
        /\ UNCHANGED <<now, ticks>>

NextRetry == VerifyTry \/ Tick

SpecRetry == InitRetry /\ [][NextRetry]_vars

\* ------------------------------------------------ failures from one address
\* One login with a wrong password has been answered at time 0, from ip1, so
\* the bucket of ip1 is {count: 1, firstAttempt: 0}.  Logins for the account
\* follow, with the right and with a wrong password, from either address.
WindowInputs == {<<"a@x.com", "wrong">>, <<"a@x.com", "P@ssw0rd1">>}

InitWindow ==
    \E us \in InitUsers :
        LET cold == [now |-> 0, loginAttempts |-> <<>>, ledger |-> EmptyBag,
                     users |-> us, challenges |-> <<>>, nextChallenge |-> 1,
                     issued |-> EmptyBag, ipFails |-> [i \in IPs |-> <<>>]]
            st == Run([g |-> cold, r |-> NewLogin("a@x.com", "ip1", "wrong")])
        IN /\ now = 0
           /\ ticks = 0
           /\ started = 0
           /\ users = st.g.users
           /\ ledger = st.g.ledger
           /\ loginAttempts = st.g.loginAttempts
           /\ ipFails = st.g.ipFails
           /\ challenges = st.g.challenges
           /\ nextChallenge = st.g.nextChallenge
           /\ issued = st.g.issued
           /\ reqs = [s \in Slots |-> IdleReq]

WindowLogin ==
    \E c \in WindowInputs, ip \in IPs :
        /\ Quiet
        /\ started < MaxWindow
        /\ started' = started + 1
        /\ Commit(1, Run([g |-> G, r |-> NewLogin(c[1], ip, c[2])]))
        /\ UNCHANGED <<now, ticks>>

NextWindow == WindowLogin \/ Tick

SpecWindow == InitWindow /\ [][NextWindow]_vars

\* ------------------------------------------------------------ the sweep
\* the clock moves by a millisecond, the IP window or the ledger window
SweepDeltas == {1, IP_WINDOW_MS, EMAIL_WINDOW_MS}

SweepTick ==
    \E d \in SweepDeltas :
        /\ Quiet
        /\ ticks < MaxTicks
        /\ now' = now + d
        /\ ticks' = ticks + 1
        /\ ipFails' = [i \in IPs |->
                SelectSeq(ipFails[i], LAMBDA t : t >= now + d - IP_WINDOW_MS)]
        /\ reqs' = [s \in Slots |-> IdleReq]
        /\ UNCHANGED <<started, loginAttempts, ledger, users, challenges,
                       nextChallenge, issued>>

\* the timer fires between two requests
Sweep ==
    /\ Quiet
    /\ loginAttempts' = cleanupLoginAttempts(loginAttempts, now)
    /\ UNCHANGED <<now, ticks, started, ledger, users, challenges, nextChallenge,
                   issued, ipFails, reqs>>

NextSweep == Login \/ Sweep \/ SweepTick

SpecSweep == Init /\ [][NextSweep]_vars

\* ------------------------------------- the second factor turned off late
\* Challenge 1 is open; the owner turns the second factor off, and on again,
\* while verifications of the challenge arrive.
NextRevoke == VerifyTry \/ TotpDisable \/ TotpEnable \/ Tick

SpecRevoke == InitRetry /\ [][NextRevoke]_vars

\* ================================================================ claims
Done(s) == reqs[s].pc = "done"

\* the sessions issued on the strength of challenge c
SessionsFor(c) ==
    LET toks == {tk \in BagToSet(issued) : tk.challenge = c}
    IN BagCardinality([tk \in toks |-> issued[tk]])

\* the code of request r is, now, a valid code of some account's secret
CodeValid(r) ==
    \E u \in UserIds : authenticatorVerify(r.token, users[u].totpSecret, now)

\* request r carries the password of the account of its email
PasswordRight(r) ==
    \E u \in UserIds : /\ users[u].email = r.email
                       /\ bcryptCompare(r.password, users[u].passwordHash)

\* the failed credential checks of ip since its last 200 response, from time w on
FailsFrom(ip, w) ==
    Cardinality({i \in 1..Len(ipFails[ip]) : ipFails[ip][i] >= w})

\* a login request has just been answered (Spec: in slot 1)
LoginAnswered == started' = started + 1 /\ reqs'[1].kind = "login"

\* C1: a login with the right password for an account whose TOTP is enabled
\* sets no session cookie; when it reaches the password check it answers 200
\* with totpRequired and the id and expiry of a new, unconsumed challenge of
\* that user whose expiry is its creation time plus 120 s.
C1_ChallengeNotSession ==
    \A s \in Slots :
        LET r == reqs[s] IN
        (/\ Done(s) /\ r.kind = "login" /\ PasswordRight(r)
         /\ \E u \in UserIds : users[u].email = r.email /\ users[u].totpEnabled)
        => /\ r.cookie = ""
           /\ r.compared =>
                /\ r.status = 200 /\ r.totpRequired
                /\ r.respChallenge \in DOMAIN challenges
                /\ LET c == challenges[r.respChallenge] IN
                   /\ c.userId = r.userId
                   /\ c.usedAt = Null
                   /\ c.expiresAt = c.createdAt + 120000
                   /\ r.respExpiresAt = c.expiresAt

C1_Witness ==
    \E s \in Slots : /\ Done(s) /\ reqs[s].kind = "login" /\ reqs[s].totpRequired
                     /\ reqs[s].respChallenge \in DOMAIN challenges
                     /\ reqs[s].cookie = ""

\* C2: no challenge yields more than one session, whatever the interleaving
\* of the verification requests that carry its id.
C2_OneSessionPerChallenge ==
    \A c \in 1..(nextChallenge - 1) : SessionsFor(c) <= 1

\* C3 as stated: once a verification of challenge c has succeeded, every
\* other verification request with c's id is answered 410 'Challenge already
\* used' and gets no session.
C3_AlwaysAlreadyUsed ==
    /\ \A c \in 1..(nextChallenge - 1) : SessionsFor(c) <= 1
    /\ \A s \in Slots :
        LET r == reqs[s] IN
        (Done(s) /\ r.kind = "totp" /\ r.cookie = "" /\ SessionsFor(r.challengeId) > 0)
        => r.status = 410 /\ r.err = "Challenge already used"

\* C3 amended: a challenge yields at most one session and stays consumed;
\* once it has, every other verification request with its id fails without a
\* session: 410 'Challenge already used' while the row exists, 404 'Challenge
\* not found' once a later login has purged it.
C3_ConsumedOnce ==
    /\ \A c \in 1..(nextChallenge - 1) :
        /\ SessionsFor(c) <= 1
        /\ (SessionsFor(c) > 0 /\ c \in DOMAIN challenges) => challenges[c].usedAt # Null
    /\ \A s \in Slots :
        LET r == reqs[s] IN
        (Done(s) /\ r.kind = "totp" /\ r.cookie = "" /\ SessionsFor(r.challengeId) > 0)
        => IF r.challengeId \in DOMAIN challenges
           THEN r.status = 410 /\ r.err = "Challenge already used"
           ELSE r.status = 404 /\ r.err = "Challenge not found"

C3_Witness ==
    \E s \in Slots : /\ Done(s) /\ reqs[s].kind = "totp" /\ reqs[s].cookie = ""
                     /\ SessionsFor(reqs[s].challengeId) = 1
                     /\ CodeValid(reqs[s])
                     /\ reqs[s].err = "Challenge already used"

C5_LockedOut ==
    [][\A u \in UserIds :
        LET r == reqs'[1] IN
        /\ (/\ LoginAnswered /\ r.email = users[u].email
            /\ users[u].lockedUntil # Null /\ users[u].lockedUntil > now
            /\ r.err # "IP_RATE_LIMIT")
           => /\ r.status = 423 /\ r.err = "ACCOUNT_LOCKED"
              /\ ~r.lookedUp /\ ~r.compared /\ r.cookie = ""
        /\ (/\ started' = started + 1 /\ r.email = users[u].email
            /\ r.path \in {"badpw", "totpbad"})
           => users'[u].lockedUntil =
                IF countFailed(ledger', r.email, now) >= 10
                THEN now + 900000 ELSE users[u].lockedUntil]_vars

C5_Witness ==
    \E s \in Slots, u \in UserIds :
        /\ Done(s) /\ reqs[s].kind = "login" /\ PasswordRight(reqs[s])
        /\ reqs[s].email = users[u].email
        /\ users[u].lockedUntil > now
        /\ reqs[s].err = "ACCOUNT_LOCKED" /\ ~reqs[s].compared

\* C6: when 5 or more credential checks from an ip have failed since the start
\* of that ip's current 60 s window, with no 200 response to it in between,
\* a login from that ip inside the window is answered 429 IP_RATE_LIMIT with no
\* account lookup and no password comparison, whatever its credentials.
C6_SixthRejected ==
    [][\A ip \in IPs :
        LET r == reqs'[1] IN
        (/\ LoginAnswered /\ r.ip = ip
         /\ ip \in DOMAIN loginAttempts
         /\ now - loginAttempts[ip].firstAttempt <= 60000
         /\ FailsFrom(ip, loginAttempts[ip].firstAttempt) >= 5)
        => /\ r.status = 429 /\ r.err = "IP_RATE_LIMIT"
           /\ ~r.lookedUp /\ ~r.compared /\ r.cookie = ""]_vars

C6_Witness ==
    \E s \in Slots :
        /\ Done(s) /\ reqs[s].kind = "login" /\ PasswordRight(reqs[s])
        /\ reqs[s].err = "IP_RATE_LIMIT"
        /\ Len(ipFails[reqs[s].ip]) >= 5

\* C7: every IP_RATE_LIMIT response carries a retryAfter above zero.
C7_RetryAfterPositive ==
    \A s \in Slots :
        (Done(s) /\ reqs[s].err = "IP_RATE_LIMIT") => reqs[s].retryAfter > 0

\* C8: the same wrong-password login gets the same status and error code
\* whether its email has an account or not.
C8_Indistinguishable ==
    (Done(1) /\ Done(2) /\ reqs[1].kind = "login" /\ reqs[2].kind = "login")
    => /\ reqs[1].status = reqs[2].status
       /\ reqs[1].err = reqs[2].err

\* C9: a request that sets the session cookie leaves the account's lockedUntil
\* null, its lastLoginAt at the current time, and no bucket for its ip.
C9_SuccessClears ==
    \A s \in Slots :
        LET r == reqs[s] IN
        (Done(s) /\ r.cookie # "")
        => /\ users[r.userId].lockedUntil = Null
           /\ users[r.userId].lastLoginAt = now
           /\ r.ip \notin DOMAIN loginAttempts

C9_Witness ==
    \E s \in Slots :
        /\ Done(s) /\ reqs[s].cookie # ""
        /\ countFailed(ledger, reqs[s].email, now) >= LOCKOUT_THRESHOLD
        /\ users[reqs[s].userId].lockedUntil = Null

\* C10: a login is answered by the first guard, in the order IP, lockout,
\* email, whose condition holds; the account is looked up exactly when none
\* holds, and the password is compared only after the lookup.
IpGuardHolds(ip) ==
    /\ ip \in DOMAIN loginAttempts
    /\ now - loginAttempts[ip].firstAttempt <= 60000
    /\ loginAttempts[ip].count >= 5
LockoutHolds(email) ==
    \E u \in UserIds : users[u].email = email /\ users[u].lockedUntil > now
EmailGuardHolds(email) == countFailed(ledger, email, now) >= 10

C10_GuardOrder ==
    [][LET r == reqs'[1] IN
       LoginAnswered =>
         /\ r.err = "IP_RATE_LIMIT" <=> IpGuardHolds(r.ip)
         /\ (r.err = "ACCOUNT_LOCKED" /\ ~r.compared)
              <=> (~IpGuardHolds(r.ip) /\ LockoutHolds(r.email))
         /\ r.err = "EMAIL_RATE_LIMIT"
              <=> (~IpGuardHolds(r.ip) /\ ~LockoutHolds(r.email)
                   /\ EmailGuardHolds(r.email))
         /\ r.lookedUp
              <=> (~IpGuardHolds(r.ip) /\ ~LockoutHolds(r.email)
                   /\ ~EmailGuardHolds(r.email))
         /\ r.compared => r.lookedUp]_vars

C10_Witness ==
    \E s \in Slots :
        /\ Done(s) /\ reqs[s].kind = "login"
        /\ reqs[s].err = "ACCOUNT_LOCKED" /\ ~reqs[s].lookedUp
        /\ ~IpGuardHolds(reqs[s].ip)
        /\ LockoutHolds(reqs[s].email) /\ EmailGuardHolds(reqs[s].email)

\* ------------------------------------------------------------ C11 .. C20
\* a request of the given kind has just been answered (in slot 1)
Answered(kind) == started' = started + 1 /\ reqs'[1].kind = kind

\* the failed rows of the ledger led for email created at w or later
FailedIn(led, email, w) ==
    LET rows == {x \in BagToSet(led) : x.email = email /\ ~x.success /\ x.createdAt >= w}
    IN BagCardinality([x \in rows |-> led[x]])

\* the rows of the ledger led for email with the given outcome created at t
RowsAt(led, email, success, t) ==
    LET rows == {x \in BagToSet(led) :
                    x.email = email /\ x.success = success /\ x.createdAt = t}
    IN BagCardinality([x \in rows |-> led[x]])

\* C11: a login with the right password for an account whose TOTP is not
\* enabled that gets past the three guards is answered 200 with the session
\* cookie of that account and totpRequired false, one token is signed, and no
\* challenge is created.
C11_DirectSession ==
    [][\A u \in UserIds :
        LET r == reqs'[1] IN
        (/\ Answered("login") /\ r.email = users[u].email
         /\ bcryptCompare(r.password, users[u].passwordHash)
         /\ ~users[u].totpEnabled /\ r.lookedUp)
        => /\ r.status = 200 /\ r.cookie = u /\ ~r.totpRequired /\ r.respChallenge = 0
           /\ BagCardinality(issued') = BagCardinality(issued) + 1
           /\ challenges' = challenges /\ nextChallenge' = nextChallenge]_vars

C11_Witness ==
    \E s \in Slots :
        /\ Done(s) /\ reqs[s].kind = "login" /\ reqs[s].cookie # ""
        /\ reqs[s].userId \in UserIds
        /\ users[reqs[s].userId].totpSecret # ""
        /\ ~users[reqs[s].userId].totpEnabled

\* C12: an enable request of an authenticated user that carries a valid code
\* of the secret set up sets totpEnabled and keeps the secret; totpEnabled and
\* the secret then stay as they are in every step but a disable request of
\* that user; and while totpEnabled is set a login with the right password
\* gets no session: when it gets past the guards it is answered with a new
\* challenge.
C12_SecondFactorStays ==
    [][\A u \in UserIds :
        LET r == reqs'[1] IN
        /\ (/\ Answered("enable") /\ r.identity = u /\ users[u].totpSecret # ""
            /\ authenticatorVerify(r.token, users[u].totpSecret, now))
           => /\ r.status = 200 /\ users'[u].totpEnabled
              /\ users'[u].totpSecret = users[u].totpSecret
        /\ (users[u].totpEnabled /\ ~(Answered("disable") /\ r.identity = u))
           => /\ users'[u].totpEnabled
              /\ users'[u].totpSecret # ""
              /\ users'[u].totpSecret = users[u].totpSecret
        /\ (/\ Answered("login") /\ r.email = users[u].email
            /\ bcryptCompare(r.password, users[u].passwordHash)
            /\ users[u].totpEnabled)
           => /\ r.cookie = "" /\ issued' = issued
              /\ r.lookedUp =>
                   /\ r.status = 200 /\ r.totpRequired
                   /\ r.respChallenge \in DOMAIN challenges'
                   /\ r.respChallenge \notin DOMAIN challenges]_vars

C12_Witness ==
    \E s \in Slots :
        /\ Done(s) /\ reqs[s].kind = "login" /\ reqs[s].totpRequired
        /\ started >= 3
        /\ users[reqs[s].userId].totpEnabled
        /\ users[reqs[s].userId].totpSecret \in SetupSecrets

\* C13: when every failed row of an account's email is more than an hour old
\* (and so at least 15 minutes old), a login with the right password from an
\* ip whose bucket is not full in its window gets past the three guards and is
\* answered 200, with the session or with the challenge.
C13_NoPermanentLockout ==
    [][\A u \in UserIds :
        LET r == reqs'[1] IN
        (/\ Answered("login") /\ r.email = users[u].email
         /\ bcryptCompare(r.password, users[u].passwordHash)
         /\ ~IpGuardHolds(r.ip)
         /\ \A x \in BagToSet(ledger) :
               (x.email = r.email /\ ~x.success)
               => (x.createdAt + 3600000 < now /\ x.createdAt + 900000 <= now))
        => /\ r.lookedUp /\ r.compared /\ r.status = 200
           /\ r.cookie = u \/ r.totpRequired]_vars

C13_Witness ==
    \E s \in Slots :
        /\ Done(s) /\ reqs[s].kind = "login" /\ reqs[s].status = 200 /\ reqs[s].compared
        /\ FailedIn(ledger, reqs[s].email, 0) >= 10
        /\ FailedIn(ledger, reqs[s].email, now - 3600000) = 0

\* C14: a login is answered 429 EMAIL_RATE_LIMIT, with no lookup and no
\* session, exactly when the IP guard and the lockout guard let it pass and
\* the failed rows of its (normalised) email created within the last hour
\* number 10 or more; rows of successful attempts and older rows do not count.
C14_EmailGuardCount ==
    [][LET r == reqs'[1] IN
       Answered("login") =>
         /\ r.err = "EMAIL_RATE_LIMIT"
              <=> (/\ ~IpGuardHolds(r.ip) /\ ~LockoutHolds(r.email)
                   /\ FailedIn(ledger, r.email, now - 3600000) >= 10)
         /\ r.err = "EMAIL_RATE_LIMIT"
              => (r.status = 429 /\ ~r.lookedUp /\ r.cookie = "" /\ ledger' = ledger)]_vars

C14_Witness ==
    \E s \in Slots :
        /\ Done(s) /\ reqs[s].kind = "login" /\ reqs[s].err = "EMAIL_RATE_LIMIT"
        /\ PasswordRight(reqs[s])
        /\ RowsAt(ledger, reqs[s].email, TRUE, 0) > 0

\* C15: a login that reaches the account lookup adds exactly one row to the
\* ledger, for its email, created now, whose success flag says whether the
\* email has an account and the password is the right one.
C15_EveryOutcomeRecorded ==
    [][LET r == reqs'[1]
           ok == \E u \in UserIds : /\ users[u].email = r.email
                                    /\ bcryptCompare(r.password, users[u].passwordHash)
       IN (Answered("login") /\ r.lookedUp)
          => /\ BagCardinality(ledger') = BagCardinality(ledger) + 1
             /\ RowsAt(ledger', r.email, ok, now) = RowsAt(ledger, r.email, ok, now) + 1]_vars

\* C16: a request that adds a failed row for an account's email and so makes
\* the failed rows of the last hour number 10 or more sets the account's
\* lockedUntil to now + 15 min and is answered ACCOUNT_LOCKED.
C16_LockSignalled ==
    [][\A u \in UserIds :
        LET r == reqs'[1] IN
        (/\ started' = started + 1 /\ r.email = users[u].email
         /\ FailedIn(ledger', r.email, now - 3600000)
              > FailedIn(ledger, r.email, now - 3600000)
         /\ FailedIn(ledger', r.email, now - 3600000) >= 10)
        => /\ users'[u].lockedUntil = now + 900000
           /\ r.err = "ACCOUNT_LOCKED"]_vars

\* C17: a verification request for an unconsumed, unexpired challenge of an
\* account whose TOTP is enabled, whatever was tried on that challenge before:
\* with a wrong code it sets no cookie, signs no token and leaves the challenge
\* table as it is; with a valid code it is answered 200 with the session
\* cookie and the challenge is consumed.
C17_RetryAfterWrongCode ==
    [][\A u \in UserIds :
        LET r == reqs'[1]
            id == r.challengeId
        IN (/\ Answered("totp") /\ id \in DOMAIN challenges
            /\ challenges[id].userId = u
            /\ challenges[id].usedAt = Null /\ challenges[id].expiresAt > now
            /\ users[u].totpEnabled)
           => IF authenticatorVerify(r.token, users[u].totpSecret, now)
              THEN /\ r.status = 200 /\ r.cookie = u
                   /\ BagCardinality(issued') = BagCardinality(issued) + 1
                   /\ challenges'[id].usedAt = now
              ELSE /\ r.cookie = "" /\ issued' = issued
                   /\ challenges' = challenges]_vars

C17_Witness ==
    \E s \in Slots :
        /\ Done(s) /\ reqs[s].kind = "totp" /\ reqs[s].cookie # ""
        /\ \E x \in BagToSet(ledger) :
              /\ ~x.success /\ x.challenge = reqs[s].challengeId
              /\ x.createdAt <= now

\* C18: a verification request with a wrong code for an unconsumed, unexpired
\* challenge counts one more attempt in the bucket of its ip (a new bucket
\* when there is none or its window has passed), adds exactly one failed row
\* for the account's email, and sets lockedUntil to now + 15 min exactly when
\* the failed rows of the last hour then number 10 or more; the bucket and
\* the account are left as a login with a wrong password from that ip that
\* reaches the password check leaves them.
C18_WrongCodeRecorded ==
    [][\A u \in UserIds :
        LET r == reqs'[1]
            id == r.challengeId
            fresh == \/ r.ip \notin DOMAIN loginAttempts
                     \/ now - loginAttempts[r.ip].firstAttempt > 60000
            alt == Run([g |-> G, r |-> NewLogin(users[u].email, r.ip, "wrong")])
        IN (/\ Answered("totp") /\ id \in DOMAIN challenges
            /\ challenges[id].userId = u
            /\ challenges[id].usedAt = Null /\ challenges[id].expiresAt > now
            /\ users[u].totpEnabled
            /\ ~authenticatorVerify(r.token, users[u].totpSecret, now))
           => /\ DOMAIN loginAttempts' = DOMAIN loginAttempts \cup {r.ip}
              /\ loginAttempts'[r.ip] =
                   IF fresh THEN [count |-> 1, firstAttempt |-> now]
                   ELSE [count |-> loginAttempts[r.ip].count + 1,
                         firstAttempt |-> loginAttempts[r.ip].firstAttempt]
              /\ \A i \in DOMAIN loginAttempts \ {r.ip} :
                   loginAttempts'[i] = loginAttempts[i]
              /\ BagCardinality(ledger') = BagCardinality(ledger) + 1
              /\ RowsAt(ledger', users[u].email, FALSE, now)
                   = RowsAt(ledger, users[u].email, FALSE, now) + 1
              /\ users'[u].lockedUntil =
                   IF FailedIn(ledger', users[u].email, now - 3600000) >= 10
                   THEN now + 900000 ELSE users[u].lockedUntil
              /\ alt.r.compared
                   => /\ loginAttempts' = alt.g.loginAttempts
                      /\ users' = alt.g.users]_vars

C18_Witness ==
    \E s \in Slots, u \in UserIds :
        /\ Done(s) /\ reqs[s].kind = "totp" /\ reqs[s].err = "INVALID_TOTP"
        /\ reqs[s].userId = u
        /\ users[u].lockedUntil = now + 900000
        /\ loginAttempts[reqs[s].ip].count >= 2

\* C19: a login or verification request that ends in the server error sets no
\* cookie and signs no token; and a request that sets the session cookie has
\* written its successful row, the last-login time and, for a verification,
\* the consumption of its challenge.
C19_NoSessionOnFault ==
    [][LET r == reqs'[1] IN
       /\ (started' = started + 1 /\ r.status = 500)
          => (r.cookie = "" /\ issued' = issued)
       /\ (started' = started + 1 /\ r.cookie # "")
          => /\ r.status = 200
             /\ RowsAt(ledger', r.email, TRUE, now) = RowsAt(ledger, r.email, TRUE, now) + 1
             /\ users'[r.userId].lastLoginAt = now
             /\ r.kind = "totp" => challenges'[r.challengeId].usedAt = now]_vars

C19_Witness ==
    \E s \in Slots :
        /\ Done(s) /\ reqs[s].status = 500 /\ reqs[s].cookie = ""
        /\ \/ reqs[s].kind = "login" /\ reqs[s].compared /\ PasswordRight(reqs[s])
           \/ /\ reqs[s].kind = "totp" /\ CodeValid(reqs[s])
              /\ reqs[s].challengeId \in DOMAIN challenges
              /\ challenges[reqs[s].challengeId].usedAt = now

\* C20: the token of a request is that of its Authorization header, else that
\* of its cookie; it is valid when it is signed with the server's key, the
\* clock has not reached its expiry and it has a subject.  Behind optionalAuth
\* the handler always runs, with the subject as identity when the token is
\* valid and with none otherwise; behind requireAuth the handler runs with the
\* subject as identity when the token is valid, and otherwise the request is
\* answered 401 and the handler does not run.
C20_GateModes ==
    \A s \in Slots :
        LET r == reqs[s]
            tok == IF r.auth.header # NoJwt THEN r.auth.header ELSE r.auth.cookie
            valid == /\ tok # NoJwt /\ tok.sig = "JWT_SECRET"
                     /\ now \div 1000 < tok.exp /\ tok.sub # ""
        IN /\ (Done(s) /\ r.kind = "posts")
              => /\ r.handled /\ r.status = 200
                 /\ r.identity = IF valid THEN tok.sub ELSE ""
           /\ (Done(s) /\ r.kind = "me")
              => IF valid
                 THEN r.handled /\ r.identity = tok.sub /\ r.status # 401
                 ELSE r.status = 401 /\ ~r.handled /\ r.identity = ""

C20_Witness ==
    \E s \in Slots :
        /\ Done(s) /\ reqs[s].kind = "me" /\ reqs[s].status = 401
        /\ reqs[s].auth.cookie.sig = "JWT_SECRET" /\ reqs[s].auth.cookie.sub # ""
        /\ reqs[s].auth.header = NoJwt
        /\ now \div 1000 >= reqs[s].auth.cookie.exp

\* ------------------------------------------------------------ C21 .. C30
\* token tk is signed with the server's key, not expired, and has a subject
TokenGood(tk) ==
    tk # NoJwt /\ tk.sig = "JWT_SECRET" /\ now \div 1000 < tk.exp /\ tk.sub # ""

\* C21: for a request that carries both an Authorization header and the
\* cookie, the gate decides on the header's token alone: when that token is
\* good the identity is its subject and the handler runs; when it is not, no
\* identity is attached, and behind requireAuth the request is answered 401
\* without the handler, whatever the cookie holds.
C21_HeaderAlone ==
    \A s \in Slots :
        LET r == reqs[s] IN
        (/\ Done(s) /\ r.kind \in {"posts", "me"}
         /\ r.auth.header # NoJwt /\ r.auth.cookie # NoJwt)
        => IF TokenGood(r.auth.header)
           THEN r.identity = r.auth.header.sub /\ r.handled
           ELSE /\ r.identity = ""
                /\ r.kind = "me" => (r.status = 401 /\ ~r.handled)

C21_Witness ==
    \E s \in Slots :
        /\ Done(s) /\ reqs[s].kind = "me" /\ reqs[s].status = 401
        /\ reqs[s].auth.header # NoJwt /\ ~TokenGood(reqs[s].auth.header)
        /\ TokenGood(reqs[s].auth.cookie)

\* C22: the phase of an account changes only by NONE -> SETUP_PENDING,
\* SETUP_PENDING -> ENABLED, ENABLED -> DISABLED and DISABLED -> SETUP_PENDING
\* (in particular never from DISABLED to ENABLED), and a setup request for an
\* ENABLED account is answered 409 and leaves the account's row as it is.
C22_LifeCycle ==
    [][\A u \in UserIds :
        LET r == reqs'[1] IN
        /\ \/ users'[u].phase = users[u].phase
           \/ <<users[u].phase, users'[u].phase>>
                \in {<<"NONE", "SETUP_PENDING">>, <<"SETUP_PENDING", "ENABLED">>,
                     <<"ENABLED", "DISABLED">>, <<"DISABLED", "SETUP_PENDING">>}
        /\ (Answered("setup") /\ r.identity = u /\ users[u].phase = "ENABLED")
           => (r.status = 409 /\ users'[u] = users[u])]_vars

\* C23: an enable request of an authenticated user never changes the stored
\* secret; it is answered 200 exactly when there is a stored secret and the
\* code is a code of that secret for the current time step or one next to it;
\* then totpEnabled is set, and otherwise totpEnabled is left as it is.
C23_EnableFrame ==
    [][\A u \in UserIds :
        LET r == reqs'[1] IN
        /\ (Answered("enable") /\ r.identity = u)
           => /\ users'[u].totpSecret = users[u].totpSecret
              /\ r.status = 200
                   <=> (/\ users[u].totpSecret # ""
                        /\ r.token.secret = users[u].totpSecret
                        /\ r.token.step >= (now \div 30000) - 1
                        /\ r.token.step <= (now \div 30000) + 1)
              /\ r.status = 200 => users'[u].totpEnabled
              /\ r.status # 200 => users'[u].totpEnabled = users[u].totpEnabled
        /\ (Answered("enable") /\ r.identity = "") => users' = users]_vars

C23_Witness ==
    \E s \in Slots :
        /\ Done(s) /\ reqs[s].kind = "enable" /\ reqs[s].err = "Invalid TOTP code"
        /\ reqs[s].identity \in UserIds
        /\ users[reqs[s].identity].totpSecret # ""
        /\ reqs[s].token.secret # users[reqs[s].identity].totpSecret
        /\ ~users[reqs[s].identity].totpEnabled

\* C24: a disable request that carries a good session token of an account is
\* answered 200, clears totpEnabled and keeps the stored secret; and a login
\* with the right password for an account that has been disabled, once past
\* the guards, sets the session cookie and creates no challenge.
C24_DisableDirect ==
    [][\A u \in UserIds :
        LET r == reqs'[1] IN
        /\ (/\ Answered("disable") /\ r.auth.header = NoJwt
            /\ TokenGood(r.auth.cookie) /\ r.auth.cookie.sub = u)
           => /\ r.status = 200 /\ ~users'[u].totpEnabled
              /\ users'[u].totpSecret = users[u].totpSecret
        /\ (/\ Answered("login") /\ r.email = users[u].email
            /\ bcryptCompare(r.password, users[u].passwordHash)
            /\ users[u].phase = "DISABLED" /\ r.lookedUp)
           => /\ r.status = 200 /\ r.cookie = u /\ ~r.totpRequired
              /\ challenges' = challenges]_vars

C24_Witness ==
    \E s \in Slots :
        /\ Done(s) /\ reqs[s].kind = "login" /\ reqs[s].cookie # ""
        /\ reqs[s].userId \in UserIds
        /\ users[reqs[s].userId].phase = "DISABLED"
        /\ users[reqs[s].userId].totpSecret # ""

\* C25: a logout request leaves every table and the tracker as they are; a
\* password change writes the password hash of its user and nothing else; and
\* a request behind requireAuth that carries a good token of a user is let
\* through with that user as identity, whatever logouts and password changes
\* came before it.
C25_NoRevocation ==
    [][LET r == reqs'[1] IN
       /\ Answered("logout")
          => /\ r.status = 200
             /\ UNCHANGED <<loginAttempts, ledger, users, challenges, nextChallenge, issued>>
       /\ Answered("password")
          => /\ UNCHANGED <<loginAttempts, ledger, challenges, nextChallenge>>
             /\ \A u \in UserIds :
                  users'[u] = [users[u] EXCEPT !.passwordHash = users'[u].passwordHash]
       /\ \A u \in UserIds :
            (/\ Answered("me") /\ r.auth.header = NoJwt
             /\ TokenGood(r.auth.cookie) /\ r.auth.cookie.sub = u)
            => (r.status = 200 /\ r.handled /\ r.identity = u)]_vars

C25_Witness ==
    \E s \in Slots :
        /\ Done(s) /\ reqs[s].kind = "me" /\ reqs[s].status = 200
        /\ reqs[s].auth.cookie = jwtSign("u1", 0)
        /\ users["u1"].passwordHash = bcryptHash("N3wP@ssw0rd")
        /\ now > 0

\* C26: every response that turns a login away at a guard, with the code
\* IP_RATE_LIMIT, ACCOUNT_LOCKED or EMAIL_RATE_LIMIT, carries a retryAfter
\* field, and its value is above zero.
C26_GuardRetryAfter ==
    \A s \in Slots :
        (/\ Done(s)
         /\ reqs[s].kind = "login"
         /\ reqs[s].err \in {"IP_RATE_LIMIT", "ACCOUNT_LOCKED", "EMAIL_RATE_LIMIT"})
        => (reqs[s].retryAfter # Null /\ reqs[s].retryAfter > 0)

\* C27: a login whose body has an ill-formed address or an empty password, and
\* a verification whose body has a code that is not six to eight digits or a
\* challenge id that is no UUID, is turned away with an error status before
\* any lookup or comparison: the tracker, the ledger, the account rows and the
\* challenges stay as they are and no session is issued.
C27_MalformedFirst ==
    [][LET r == reqs'[1] IN
       (\/ /\ Answered("login")
           /\ (~IsEmail(r.body.email) \/ r.body.password = "")
        \/ /\ Answered("totp")
           /\ (r.body.code.form # "digits" \/ r.body.challengeId.form # "uuid"))
       => /\ r.status >= 400
          /\ r.cookie = "" /\ ~r.lookedUp /\ ~r.compared
          /\ UNCHANGED <<loginAttempts, ledger, users, challenges,
                         nextChallenge, issued, ipFails>>]_vars

\* a verification with a code of five digits for a challenge that is open,
\* and a login with an empty password for the account, both turned away
C27_Witness ==
    /\ Done(1) /\ reqs[1].kind = "totp" /\ reqs[1].status >= 400
    /\ reqs[1].body.code.form = "short"
    /\ reqs[1].body.challengeId.form = "uuid"
    /\ reqs[1].body.challengeId.n \in DOMAIN challenges
    /\ challenges[reqs[1].body.challengeId.n].usedAt = Null
    /\ loginAttempts # <<>>

\* C28: no request is answered with a session for an account whose
\* lockedUntil lies in the future when the request arrives, the verification
\* of a second factor with a correct code included.
C28_NoSessionWhileLocked ==
    [][\A u \in UserIds :
         (started' = started + 1 /\ reqs'[1].cookie = u)
         => (users[u].lockedUntil = Null \/ users[u].lockedUntil <= now)]_vars

\* the failed verifications the ledger holds for challenge c
FailedOn(c) ==
    LET rows == {x \in BagToSet(ledger) : ~x.success /\ x.challenge = c}
    IN BagCardinality([x \in rows |-> ledger[x]])

\* C29: a verification is answered with a session only while fewer than five
\* wrong codes have been sent for its challenge; from the fifth wrong code on
\* the challenge is refused, a correct code included.
C29_AttemptsBounded ==
    \A s \in Slots :
        (Done(s) /\ reqs[s].kind = "totp" /\ reqs[s].cookie # "")
        => FailedOn(reqs[s].challengeId) < 5

\* the failures of ip since its bucket was last cleared by a successful login
\* that were recorded later than t
FailsAfter(ip, t) ==
    Cardinality({j \in DOMAIN ipFails[ip] : ipFails[ip][j] > t})

\* C30: at every instant, the failures recorded for one address in the 60
\* seconds that end at that instant, since the last successful login from
\* the address, number at most five.
C30_SlidingWindow ==
    \A ip \in IPs : FailsAfter(ip, now - IP_WINDOW_MS) <= IP_MAX_ATTEMPTS

\* ------------------------------------------------------------ C31 .. C39
\* C31: the bucket of an address is removed from the tracker only by a request
\* from that address that is answered with a session; a request that is
\* answered without one, the correct password of an account with its second
\* factor on included, removes no bucket.
C31_ResetOnlySession ==
    [][\A ip \in IPs :
         (ip \in DOMAIN loginAttempts /\ ip \notin DOMAIN loginAttempts')
         => /\ started' = started + 1
            /\ reqs'[1].ip = ip
            /\ reqs'[1].cookie # ""]_vars

\* the failed rows the ledger led holds for email, whenever created
FailedRows(led, email) ==
    LET rows == {x \in BagToSet(led) : x.email = email /\ ~x.success}
    IN BagCardinality([x \in rows |-> led[x]])

\* request r has stored its failed row and not yet finished recording
Recording(r) == InFlight(r) /\ r.pc \in {"rec_count", "rec_lock"}

\* in the stores led, us and the requests rq at time t: an account whose
\* failed rows in the window number 10 or more, with every request that stored
\* one of them through with recording and no successful login on the ledger,
\* has lockedUntil in the future
LockSet(led, us, rq, t) ==
    \A u \in UserIds :
        (/\ countFailed(led, EmailOf[u], t) >= LOCKOUT_THRESHOLD
         /\ \A s \in Slots : ~(Recording(rq[s]) /\ rq[s].email = EmailOf[u])
         /\ \A x \in BagToSet(led) : ~(x.email = EmailOf[u] /\ x.success))
        => (us[u].lockedUntil # Null /\ us[u].lockedUntil > t)

\* C32: with the steps of two requests interleaved in every way, no row of the
\* ledger is ever lost; the step of a failing password or code check that
\* stores its row adds one failed row for its email to the rows the others
\* stored; a failing check is answered only after that step; and once the
\* failed rows of an account in the window number 10 or more and every request
\* that stored one of them has finished recording, with no successful login
\* for the account on the ledger, lockedUntil of the account lies in the future.
C32_NoFailureLost ==
    [][/\ \A x \in BagToSet(ledger) : CopiesIn(x, ledger') >= CopiesIn(x, ledger)
       /\ \A s \in Slots :
            /\ (/\ reqs[s].pc = "rec_insert" /\ reqs'[s].pc # "rec_insert"
                /\ reqs[s].path \in {"nouser", "badpw", "totpbad"})
               => FailedRows(ledger', reqs[s].email)
                     = FailedRows(ledger, reqs[s].email) + 1
            /\ (/\ InFlight(reqs[s]) /\ reqs'[s].pc = "done"
                /\ reqs'[s].path \in {"nouser", "badpw", "totpbad"})
               => Recording(reqs[s])
       /\ LockSet(ledger', users', reqs', now')]_vars

\* two failing logins for the account were in flight together: both passed
\* the guards, both stored a row, and the account is locked
C32_Witness ==
    /\ \A s \in Slots : Done(s) /\ reqs[s].path = "badpw"
    /\ countFailed(ledger, "a@x.com", now) = LOCKOUT_THRESHOLD + 1
    /\ \A x \in BagToSet(ledger) : ~x.success
    /\ users["u1"].lockedUntil # Null /\ users["u1"].lockedUntil > now

\* the failed rows of led that password comparisons for email stored at w or
\* later: rows of a second-factor check carry the id of their challenge
FailedGuesses(led, email, w) ==
    LET rows == {x \in BagToSet(led) :
                    /\ x.email = email /\ ~x.success
                    /\ x.challenge = 0 /\ x.userId # ""
                    /\ x.createdAt >= w}
    IN BagCardinality([x \in rows |-> led[x]])

\* C33: with the steps of two logins interleaved in every way, the password
\* comparisons that fail for one email inside the hour that ends now number
\* at most 10.
C33_GuessesBounded ==
    \A u \in UserIds :
        FailedGuesses(ledger, EmailOf[u], now - EMAIL_WINDOW_MS) <= EMAIL_MAX_ATTEMPTS

\* C34 as stated: a login that arrives while the account of its email is
\* locked and the failed rows of the email in the window number 10 or more is
\* answered 423 ACCOUNT_LOCKED; and a login is answered EMAIL_RATE_LIMIT only
\* while the account is not locked.
C34_AlwaysLocked ==
    [][LET r == reqs'[1] IN
       LoginAnswered =>
         /\ (LockoutHolds(r.email) /\ EmailGuardHolds(r.email))
            => (r.status = 423 /\ r.err = "ACCOUNT_LOCKED")
         /\ r.err = "EMAIL_RATE_LIMIT" => ~LockoutHolds(r.email)]_vars

\* C34: a login that is not turned away by the IP guard and arrives while
\* the account of its email is locked and the failed rows of the email in the
\* window number 10 or more is answered 423 ACCOUNT_LOCKED, once, with no
\* lookup and no comparison; and a login is answered EMAIL_RATE_LIMIT only
\* while the account is not locked.
C34_LockedFirst ==
    [][LET r == reqs'[1] IN
       LoginAnswered =>
         /\ (/\ LockoutHolds(r.email) /\ EmailGuardHolds(r.email)
             /\ ~IpGuardHolds(r.ip))
            => /\ r.status = 423 /\ r.err = "ACCOUNT_LOCKED"
               /\ ~r.lookedUp /\ ~r.compared
         /\ r.err = "EMAIL_RATE_LIMIT" => ~LockoutHolds(r.email)]_vars

C34_Witness ==
    \E s \in Slots :
        /\ Done(s) /\ reqs[s].kind = "login"
        /\ reqs[s].err = "ACCOUNT_LOCKED" /\ ~reqs[s].lookedUp
        /\ LockoutHolds(reqs[s].email) /\ EmailGuardHolds(reqs[s].email)

\* C35: a login that the IP guard, the lockout guard or the email guard turns
\* away leaves the tracker, the ledger, the account rows and the challenges
\* as they were.
C35_RejectedRecordsNothing ==
    [][LET r == reqs'[1] IN
       (/\ LoginAnswered
        /\ \/ r.err \in {"IP_RATE_LIMIT", "EMAIL_RATE_LIMIT"}
           \/ r.err = "ACCOUNT_LOCKED" /\ ~r.lookedUp)
       => UNCHANGED <<loginAttempts, ledger, users, challenges, nextChallenge,
                      issued, ipFails>>]_vars

\* a login turned away by the IP guard after the window of its bucket began,
\* the bucket still at five with its first failure where it was
C35_Witness ==
    \E s \in Slots :
        /\ Done(s) /\ reqs[s].kind = "login" /\ reqs[s].err = "IP_RATE_LIMIT"
        /\ reqs[s].ip \in DOMAIN loginAttempts
        /\ loginAttempts[reqs[s].ip].count = IP_MAX_ATTEMPTS
        /\ loginAttempts[reqs[s].ip].firstAttempt < now

\* C36: at every instant between requests, the sweep of the tracker keeps
\* exactly the buckets whose 60 s window has not run out, and every address
\* gets from the IP guard the same answer on the swept tracker as on the
\* tracker as it was.
C36_SweepExact ==
    Quiet =>
      LET swept == cleanupLoginAttempts(loginAttempts, now) IN
      /\ \A ip \in DOMAIN loginAttempts :
           ip \in DOMAIN swept <=> now - loginAttempts[ip].firstAttempt <= IP_WINDOW_MS
      /\ \A ip \in IPs :
           checkIpRateLimit(swept, ip, now) = checkIpRateLimit(loginAttempts, ip, now)

\* C37: a verification of a challenge whose owner has the second factor off,
\* or no secret, when it arrives is answered 403 with no session and no row
\* written, whatever its code; and a verification is answered with a session
\* only if the owner of its challenge has the second factor on and a secret.
C37_OwnerMustBeActive ==
    [][LET r == reqs'[1] IN
       (Answered("totp") /\ r.challengeId \in DOMAIN challenges)
       => LET owner == users[challenges[r.challengeId].userId] IN
          /\ (~totpActive(owner) /\ challengeGate(challenges[r.challengeId], now) = "")
             => /\ r.status = 403 /\ r.cookie = ""
                /\ UNCHANGED <<ledger, users, challenges, issued>>
          /\ r.cookie # "" => totpActive(owner)]_vars

\* the owner turned the second factor off after the challenge was created;
\* the code sent is the current one of the secret the account still holds
C37_Witness ==
    /\ Done(1) /\ reqs[1].kind = "totp" /\ reqs[1].status = 403
    /\ reqs[1].challengeId \in DOMAIN challenges
    /\ LET c == challenges[reqs[1].challengeId] IN
       /\ c.usedAt = Null /\ c.expiresAt > now
       /\ ~users[c.userId].totpEnabled
       /\ users[c.userId].totpSecret # ""
       /\ authenticatorVerify(reqs[1].token, users[c.userId].totpSecret, now)

\* C38: a login answered with a new challenge removes every challenge of its
\* user that a verification would turn away as consumed or as expired, and
\* leaves every other challenge in the table as it was.
C38_PurgeStale ==
    [][LET r == reqs'[1] IN
       (LoginAnswered /\ r.totpRequired)
       => \A c \in DOMAIN challenges :
            IF /\ challenges[c].userId = r.userId
               /\ challengeGate(challenges[c], now) # ""
            THEN c \notin DOMAIN challenges'
            ELSE c \in DOMAIN challenges' /\ challenges'[c] = challenges[c]]_vars

\* C39: after every request, an account whose totpEnabled is set holds a
\* secret; and a request that finds totpEnabled set leaves the secret of that
\* account as it is, whether or not it clears the flag.
C39_EnabledHasSecret ==
    [][\A u \in UserIds :
         /\ users'[u].totpEnabled => users'[u].totpSecret # ""
         /\ users[u].totpEnabled
            => (users[u].totpSecret # "" /\ users'[u].totpSecret = users[u].totpSecret)]_vars

\* a set-up request was sent for an account that has the second factor on,
\* and the account still holds the secret it was enabled with
C39_Witness ==
    /\ Done(1) /\ reqs[1].kind = "setup" /\ reqs[1].status = 409
    /\ users[reqs[1].identity].totpEnabled
    /\ users[reqs[1].identity].totpSecret \in SetupSecrets

====
